---- MODULE Spec2Model ----
(***************************************************************************)
(* The client-side data-fetch orchestrator of the banking dashboard:       *)
(* AppState (state/app_state.py) with its cache helpers, its filter and    *)
(* pagination handlers and its load handlers, over an API that answers     *)
(* each call with a payload or with a transport failure.                   *)
(*                                                                         *)
(* A handler runs atomically up to its next await; `ops` holds the frame   *)
(* of every handler that is suspended at an await.  Python dicts are       *)
(* functions over strings, lists are sequences, None is the empty          *)
(* sequence and an Optional value v is <<v>>.                              *)
(***************************************************************************)
EXTENDS Integers, Sequences, FiniteSets, TLC

VARIABLES
    self,    \* the fields of the AppState instance
    now,     \* time.time(), in seconds
    ops,     \* the frames of the handlers suspended at an await, by slot
    just     \* the handler that exited in the last step (history)

vars == <<self, now, ops, just>>

-----------------------------------------------------------------------------
(* Program constants                                                       *)

ITEMS_PER_PAGE == 50
CACHE_TTL_SECONDS == 60
TOP_CUSTOMERS_LIMIT == 10
RECENT_TRANSACTIONS_LIMIT == 10
DAILY_STATS_LIMIT == 30
AMOUNT_DISTRIBUTION_BINS == 10
AUX_TRANSACTIONS_LIMIT == 100

US_STATES ==
    << "AL", "AK", "AZ", "AR", "CA", "CO", "CT", "DE", "FL", "GA",
       "HI", "ID", "IL", "IN", "IA", "KS", "KY", "LA", "ME", "MD",
       "MA", "MI", "MN", "MS", "MO", "MT", "NE", "NV", "NH", "NJ",
       "NM", "NY", "NC", "ND", "OH", "OK", "OR", "PA", "RI", "SC",
       "SD", "TN", "TX", "UT", "VT", "VA", "WA", "WV", "WI", "WY" >>

COMMON_MCC_CODES ==
    << "4111", "4814", "5200", "5300", "5311", "5411", "5541",
       "5542", "5812", "5813", "5912", "5999" >>

-----------------------------------------------------------------------------
(* Python values                                                           *)

Empty == << >>

\* bool(x) of a dict, a list or a str
Truthy(x) == DOMAIN x # {}

\* d.get(k, default)
Get(d, k, default) == IF k \in DOMAIN d THEN d[k] ELSE default

\* d[k] = v on a dict
Put(d, k, v) == [x \in DOMAIN d \cup {k} |-> IF x = k THEN v ELSE d[x]]

\* d.pop(k, None) on a dict
Pop(d, k) == [x \in DOMAIN d \ {k} |-> d[x]]

Range(s) == {s[i] : i \in DOMAIN s}

\* What an awaited API call comes back with: a decoded JSON body, or the
\* exception raise_for_status / the transport raised.
Fail == [ok |-> FALSE]
Ok(v) == [ok |-> TRUE, val |-> v]

-----------------------------------------------------------------------------
(* Entities (models.py): constructing a model from an item raises when a   *)
(* required field is missing; the model keeps the declared fields the     *)
(* item carries and ignores the rest.  An optional field the item lacks    *)
(* is None: left out here.                                                 *)

TransactionRequired == {"id", "client_id", "date", "amount", "isFraud"}
TransactionOptional ==
    {"card_id", "use_chip", "merchant_id", "merchant_city", "merchant_state",
     "zip", "mcc", "errors"}

FraudStatRequired == {"type", "total_count", "fraud_count", "fraud_rate"}

DailyStatRequired == {"step", "count", "total_amount", "fraud_count"}

TypeStatRequired == {"type", "count", "total_amount", "avg_amount"}

CustomerRequired == {"id", "transactions_count", "total_amount"}

Validates(item, required) == required \subseteq DOMAIN item

Build(item, required, optional) ==
    [k \in DOMAIN item \cap (required \cup optional) |-> item[k]]

\* the entity built with its flag at 0 whatever the record carries
TransactionFlagDefaulted(item) ==
    [Build(item, TransactionRequired, TransactionOptional) EXCEPT !.isFraud = 0]

Transaction(item) == Build(item, TransactionRequired, TransactionOptional)

FraudStat(item) == Build(item, FraudStatRequired, {})

DailyStat(item) ==
    LET b == Build(item, DailyStatRequired, {"avg_amount"})
    IN  IF "avg_amount" \in DOMAIN b THEN b ELSE Put(b, "avg_amount", 0)

TypeStat(item) ==
    LET b == Build(item, TypeStatRequired, {"fraud_rate"})
    IN  IF "fraud_rate" \in DOMAIN b THEN b ELSE Put(b, "fraud_rate", 0)

\* a list comprehension over the items raises as soon as one item fails
AllValidate(items, required) == \A i \in DOMAIN items : Validates(items[i], required)

-----------------------------------------------------------------------------
(* Cache helpers                                                           *)

\* the lookup with a default: an absent key is read as refreshed at time 0
is_cache_valid_default(st, cache_key, t) ==
    (t - Get(st.cache_timestamps, cache_key, 0)) < CACHE_TTL_SECONDS

\* the comparison with the bound included: an entry of age TTL counts as fresh
is_cache_valid_inclusive(st, cache_key, t) ==
    IF cache_key \notin DOMAIN st.cache_timestamps
    THEN FALSE
    ELSE (t - st.cache_timestamps[cache_key]) <= CACHE_TTL_SECONDS

is_cache_valid(st, cache_key, t) ==
    IF cache_key \notin DOMAIN st.cache_timestamps
    THEN FALSE
    ELSE (t - st.cache_timestamps[cache_key]) < CACHE_TTL_SECONDS

\* the touch that refreshes the entries already there as well
update_cache_timestamp_all(st, cache_key, t) ==
    [st EXCEPT !.cache_timestamps =
        [k \in DOMAIN @ \cup {cache_key} |-> t]]

update_cache_timestamp(st, cache_key, t) ==
    [st EXCEPT !.cache_timestamps = Put(@, cache_key, t)]

CacheKeys == {"dashboard", "transaction_types", "top_customers", "fraud", "stats"}

-----------------------------------------------------------------------------
(* The instance after construction                                          *)

InitSelf ==
    [ is_loading |-> FALSE,
      error_message |-> "",
      cache_timestamps |-> Empty,
      stats_overview |-> Empty,
      recent_transactions |-> Empty,
      system_health |-> Empty,
      system_metadata |-> Empty,
      transactions |-> Empty,
      transaction_types |-> Empty,
      total_transactions |-> 0,
      current_page |-> 1,
      items_per_page |-> ITEMS_PER_PAGE,
      filter_use_chip |-> "",
      filter_is_fraud |-> Empty,
      filter_min_amount |-> Empty,
      filter_max_amount |-> Empty,
      filter_merchant_state |-> "",
      customers |-> Empty,
      top_customers |-> Empty,
      customer_profile |-> Empty,
      total_customers |-> 0,
      customers_page |-> 1,
      search_customer_id |-> Empty,
      fraud_summary |-> Empty,
      fraud_by_type |-> Empty,
      fraud_prediction |-> Empty,
      merchant_states |-> US_STATES,
      mcc_codes |-> COMMON_MCC_CODES,
      amount_distribution |-> Empty,
      stats_by_type |-> Empty,
      daily_stats |-> Empty ]

-----------------------------------------------------------------------------
(* Frames and exits                                                        *)

Slots == {1, 2}

Idle == [pc |-> "idle"]

Quiet == [op |-> "none"]

\* One handler at a time: a handler starts in slot 1 when no frame is live.
Serial(s) == s = 1 /\ \A t \in Slots : ops[t] = Idle

\* An exception that no except clause of the handler has caught travels
\* with the state, as a field `exc`, to the handler's exit, where the caller
\* gets it: `raised` of the exit.

\* History kept with a suspended handler: `pre` and `at` are the state and
\* the time at its entry, `after` the handlers that were already suspended
\* when it started, `overtaken` whether a handler that started after it has
\* ended while it was suspended.  An exit leaves them in `just`, with
\* `before`, the state the exit step found.

\* the handler `op` ends, leaving `post`, without having awaited
Done(s, op, post) ==
    /\ self' = IF "exc" \in DOMAIN post
               THEN [f \in DOMAIN InitSelf |-> post[f]] ELSE post
    /\ ops' = ops
    /\ just' = [op |-> op, pre |-> self, at |-> now, issued |-> << >>,
                replies |-> << >>, raised |-> "exc" \in DOMAIN post,
                before |-> self, overtaken |-> FALSE]

\* the handler `op` suspends at its first await, its requests in flight
Await(s, op, pc, st, issued, loc) ==
    /\ self' = st
    /\ ops' = [ops EXCEPT ![s] =
                 [pc |-> pc, op |-> op, pre |-> self, at |-> now,
                  issued |-> issued, replies |-> << >>, loc |-> loc,
                  after |-> {t \in Slots : ops[t] # Idle},
                  overtaken |-> FALSE]]
    /\ just' = Quiet

\* the resumed handler of slot s suspends at its next await
AwaitAgain(s, pc, st, issued, replies, loc) ==
    /\ self' = st
    /\ ops' = [ops EXCEPT ![s] =
                 [@ EXCEPT !.pc = pc, !.issued = @ \o issued,
                           !.replies = @ \o replies, !.loc = loc]]
    /\ just' = Quiet

\* the resumed handler of slot s ends, leaving `post`
Return(s, post, replies) ==
    /\ self' = IF "exc" \in DOMAIN post
               THEN [f \in DOMAIN InitSelf |-> post[f]] ELSE post
    /\ ops' = [t \in Slots |->
                 IF t = s THEN Idle
                 ELSE IF ops[t] # Idle /\ t \in ops[s].after
                      THEN [ops[t] EXCEPT !.overtaken = TRUE]
                      ELSE ops[t]]
    /\ just' = [op |-> ops[s].op, pre |-> ops[s].pre, at |-> ops[s].at,
                issued |-> ops[s].issued, replies |-> ops[s].replies \o replies,
                raised |-> "exc" \in DOMAIN post,
                before |-> self, overtaken |-> ops[s].overtaken]

\* try: self.is_loading = True; self.error_message = ""
Begin(st) == [st EXCEPT !.is_loading = TRUE, !.error_message = ""]

\* no except clause: the exception goes on to the caller
RaiseOut(st, msg) == [f \in DOMAIN st \cup {"exc"} |-> IF f = "exc" THEN msg ELSE st[f]]

\* except Exception as e: self.error_message = f"...: {e}"
Raise(st, msg) == [st EXCEPT !.error_message = msg]

\* no finally clause: the flag stays as the handler left it
FinallyForgotten(st) == st

\* finally: self.is_loading = False
Finally(st) == [st EXCEPT !.is_loading = FALSE]

MapSeq(F(_), items) == [i \in DOMAIN items |-> F(items[i])]

-----------------------------------------------------------------------------
(* What the API may answer                                                 *)

TxA ==
    [id |-> "t1", client_id |-> 7, date |-> "2024-01-01", amount |-> 25,
     isFraud |-> 1, merchant_state |-> "PR", mcc |-> 7011]

TxB ==
    [id |-> "t2", client_id |-> 8, date |-> "2024-01-02", amount |-> 40,
     isFraud |-> 0]

TxC ==
    [id |-> "t4", client_id |-> 9, date |-> "2024-01-04", amount |-> 60,
     isFraud |-> 0, merchant_state |-> "DC", mcc |-> 3000]

\* a record without its amount
TxBad == [id |-> "t3", client_id |-> 9, date |-> "2024-01-03", isFraud |-> 0]

StatsOverviewReplies ==
    {Fail, Ok(Empty), Ok([total_transactions |-> 1000, fraud_rate |-> 1])}

RecentReplies == {Fail, Ok(<< >>), Ok(<<TxA>>), Ok(<<TxA, TxBad>>)}

HealthReplies == {Fail, Ok([status |-> "healthy"])}

MetadataReplies == {Fail, Ok([version |-> "1.0.0"])}

-----------------------------------------------------------------------------
(* load_dashboard_data                                                     *)

DashboardCalls ==
    << [ep |-> "/api/stats/overview"],
       [ep |-> "/api/transactions/recent", n |-> RECENT_TRANSACTIONS_LIMIT],
       [ep |-> "/api/system/health"],
       [ep |-> "/api/system/metadata"] >>

\* the guard looking up the key of another section
DashboardCachedOtherKey(st, t) ==
    /\ is_cache_valid(st, "stats", t)
    /\ Truthy(st.stats_overview)
    /\ Truthy(st.recent_transactions)

DashboardCached(st, t) ==
    /\ is_cache_valid(st, "dashboard", t)
    /\ Truthy(st.stats_overview)
    /\ Truthy(st.recent_transactions)

\* the code after the gather, with the four results
DashboardProcess(st, r, t) ==
    LET a1 == IF r[1].ok THEN [st EXCEPT !.stats_overview = r[1].val] ELSE st
    IN  IF r[2].ok /\ ~AllValidate(r[2].val, TransactionRequired)
        THEN Finally(Raise(a1, "Error loading dashboard"))
        ELSE
          LET a2 == IF r[2].ok
                    THEN [a1 EXCEPT !.recent_transactions = MapSeq(Transaction, r[2].val)]
                    ELSE a1
              a3 == IF r[3].ok THEN [a2 EXCEPT !.system_health = r[3].val] ELSE a2
              a4 == IF r[4].ok
                    THEN [a3 EXCEPT !.system_metadata = Put(r[4].val, "version", "1.1.0")]
                    ELSE a3
          IN  Finally(update_cache_timestamp(a4, "dashboard", t))

load_dashboard_data(s) ==
    /\ ops[s] = Idle
    /\ IF DashboardCached(self, now)
       THEN Done(s, "load_dashboard_data", self)
       ELSE Await(s, "load_dashboard_data", "load_dashboard_data", Begin(self),
                  DashboardCalls, Empty)
    /\ UNCHANGED now

load_dashboard_data_gathered(s) ==
    /\ ops[s].pc = "load_dashboard_data"
    /\ \E r1 \in StatsOverviewReplies, r2 \in RecentReplies,
          r3 \in HealthReplies, r4 \in MetadataReplies :
         LET r == <<r1, r2, r3, r4>>
         IN  Return(s, DashboardProcess(self, r, now), r)
    /\ UNCHANGED now

-----------------------------------------------------------------------------
(* load_stats_data                                                         *)

TsA == [type |-> "Online", count |-> 4, total_amount |-> 100, avg_amount |-> 25]

\* a row without its avg_amount
TsBad == [type |-> "Chip", count |-> 2, total_amount |-> 30]

DsA == [step |-> "1", count |-> 4, total_amount |-> 100, fraud_count |-> 0]

AmountDistributionReplies ==
    {Fail, Ok(Empty), Ok([bins |-> <<0, 100>>, counts |-> <<3>>])}

StatsByTypeReplies == {Fail, Ok(<<TsA>>), Ok(<<TsA, TsBad>>)}

DailyStatsReplies == {Fail, Ok(<<DsA>>)}

StatsCalls ==
    << [ep |-> "/api/stats/amount-distribution", bins |-> AMOUNT_DISTRIBUTION_BINS],
       [ep |-> "/api/stats/by-type"],
       [ep |-> "/api/stats/daily", days |-> DAILY_STATS_LIMIT] >>

StatsCached(st, t) ==
    is_cache_valid(st, "stats", t) /\ Truthy(st.amount_distribution)

StatsProcess(st, r, t) ==
    LET a1 == IF r[1].ok THEN [st EXCEPT !.amount_distribution = r[1].val] ELSE st
    IN  IF r[2].ok /\ ~AllValidate(r[2].val, TypeStatRequired)
        THEN Finally(Raise(a1, "Error loading stats"))
        ELSE
          LET a2 == IF r[2].ok
                    THEN [a1 EXCEPT !.stats_by_type = MapSeq(TypeStat, r[2].val)]
                    ELSE a1
          IN  IF r[3].ok /\ ~AllValidate(r[3].val, DailyStatRequired)
              THEN Finally(Raise(a2, "Error loading stats"))
              ELSE
                LET a3 == IF r[3].ok
                          THEN [a2 EXCEPT !.daily_stats = MapSeq(DailyStat, r[3].val)]
                          ELSE a2
                IN  Finally(update_cache_timestamp(a3, "stats", t))

load_stats_data(s) ==
    /\ ops[s] = Idle
    /\ IF StatsCached(self, now)
       THEN Done(s, "load_stats_data", self)
       ELSE Await(s, "load_stats_data", "load_stats_data", Begin(self),
                  StatsCalls, Empty)
    /\ UNCHANGED now

\* the handler going on at the first result, the other two calls pending
load_stats_data_first(s) ==
    /\ ops[s].pc = "load_stats_data"
    /\ \E r1 \in AmountDistributionReplies :
         Return(s, StatsProcess(self, <<r1, Fail, Fail>>, now), <<r1>>)
    /\ UNCHANGED now

load_stats_data_gathered(s) ==
    /\ ops[s].pc = "load_stats_data"
    /\ \E r1 \in AmountDistributionReplies, r2 \in StatsByTypeReplies,
          r3 \in DailyStatsReplies :
         LET r == <<r1, r2, r3>>
         IN  Return(s, StatsProcess(self, r, now), r)
    /\ UNCHANGED now

-----------------------------------------------------------------------------
(* load_fraud_data                                                         *)

FsA == [type |-> "Online", total_count |-> 10, fraud_count |-> 1, fraud_rate |-> 0]

\* a row that carries its type only
FsBad == [type |-> "Chip"]

FraudSummaryReplies == {Fail, Ok(Empty), Ok([total_frauds |-> 5])}

FraudByTypeReplies == {Fail, Ok(<<FsA>>), Ok(<<FsA, FsBad>>)}

\* GET /api/transactions answers {transactions: [...], total: int}
AuxReplies ==
    {Fail, Ok([transactions |-> <<TxA>>, total |-> 1]),
     Ok([transactions |-> <<TxB>>, total |-> 1]),
     Ok([transactions |-> <<TxC, TxA, TxC>>, total |-> 3])}

\* sorted() of a set of state codes: the codes in alphabetical order
StateOrder ==
    << "AK", "AL", "AR", "AZ", "CA", "CO", "CT", "DC", "DE", "FL", "GA",
       "HI", "IA", "ID", "IL", "IN", "KS", "KY", "LA", "MA", "MD", "ME",
       "MI", "MN", "MO", "MS", "MT", "NC", "ND", "NE", "NH", "NJ", "NM",
       "NV", "NY", "OH", "OK", "OR", "PA", "PR", "RI", "SC", "SD", "TN",
       "TX", "UT", "VA", "VT", "WA", "WI", "WV", "WY" >>

\* sorted() of a set of MCC strings
MccOrder ==
    << "3000", "4111", "4814", "5200", "5300", "5311", "5411", "5541",
       "5542", "5812", "5813", "5912", "5999", "7011" >>

SortedBy(order, S) == SelectSeq(order, LAMBDA x : x \in S)

Digit == <<"0", "1", "2", "3", "4", "5", "6", "7", "8", "9">>

RECURSIVE str(_)
\* str(n) of a non-negative int
str(n) == IF n < 10 THEN Digit[n + 1] ELSE str(n \div 10) \o Digit[(n % 10) + 1]

FraudCalls == << [ep |-> "/api/fraud/summary"], [ep |-> "/api/fraud/by-type"] >>

FraudAuxCall == [ep |-> "/api/transactions", page |-> 1, limit |-> AUX_TRANSACTIONS_LIMIT]

FraudCached(st, t) == is_cache_valid(st, "fraud", t) /\ Truthy(st.fraud_summary)

\* the code between the gather and the auxiliary fetch: raised or not, and
\* the state it leaves
FraudProcess(st, r) ==
    LET a1 == IF r[1].ok THEN [st EXCEPT !.fraud_summary = r[1].val] ELSE st
    IN  IF r[2].ok /\ ~AllValidate(r[2].val, FraudStatRequired)
        THEN [raised |-> TRUE, st |-> Finally(Raise(a1, "Error loading fraud data"))]
        ELSE [raised |-> FALSE,
              st |-> IF r[2].ok
                     THEN [a1 EXCEPT !.fraud_by_type = MapSeq(FraudStat, r[2].val)]
                     ELSE a1]

\* the inner try block reporting the failure of the auxiliary fetch
FraudOptionsReported(st, aux) ==
    IF ~aux.ok
    THEN Raise(st, "Error loading fraud data")
    ELSE st

\* the options replaced by those found, the ones held before dropped
FraudOptionsReplaced(st, aux) ==
    IF ~aux.ok
    THEN st
    ELSE
      LET txs == Get(aux.val, "transactions", << >>)
          found_states ==
              {txs[i].merchant_state : i \in
                 {j \in DOMAIN txs : Get(txs[j], "merchant_state", "") # ""}}
      IN  IF found_states # {}
          THEN [st EXCEPT !.merchant_states = SortedBy(StateOrder, found_states)]
          ELSE st

\* the inner try block with the auxiliary answer: the dropdown options
FraudOptions(st, aux) ==
    IF ~aux.ok
    THEN st
    ELSE
      LET txs == Get(aux.val, "transactions", << >>)
          found_states ==
              {txs[i].merchant_state : i \in
                 {j \in DOMAIN txs : Get(txs[j], "merchant_state", "") # ""}}
          current_states == Range(st.merchant_states)
          new_states == found_states \ current_states
          a1 == IF new_states # {}
                THEN [st EXCEPT !.merchant_states =
                                   SortedBy(StateOrder, current_states \cup new_states)]
                ELSE st
          found_mccs ==
              {str(txs[i].mcc) : i \in {j \in DOMAIN txs : Get(txs[j], "mcc", 0) # 0}}
          current_mccs == Range(a1.mcc_codes)
          new_mccs == found_mccs \ current_mccs
      IN  IF new_mccs # {}
          THEN [a1 EXCEPT !.mcc_codes = SortedBy(MccOrder, current_mccs \cup new_mccs)]
          ELSE a1

load_fraud_data(s) ==
    /\ ops[s] = Idle
    /\ IF FraudCached(self, now)
       THEN Done(s, "load_fraud_data", self)
       ELSE Await(s, "load_fraud_data", "load_fraud_data", Begin(self),
                  FraudCalls, Empty)
    /\ UNCHANGED now

load_fraud_data_gathered(s) ==
    /\ ops[s].pc = "load_fraud_data"
    /\ \E r1 \in FraudSummaryReplies, r2 \in FraudByTypeReplies :
         LET r == <<r1, r2>>
             p == FraudProcess(self, r)
         IN  IF p.raised
             THEN Return(s, p.st, r)
             ELSE AwaitAgain(s, "load_fraud_data:aux", p.st, <<FraudAuxCall>>, r,
                             Empty)
    /\ UNCHANGED now

\* the exit after the auxiliary fetch skipping the finally clause
load_fraud_data_aux_unfinished(s) ==
    /\ ops[s].pc = "load_fraud_data:aux"
    /\ \E aux \in AuxReplies :
         Return(s, update_cache_timestamp(FraudOptions(self, aux), "fraud", now),
                <<aux>>)
    /\ UNCHANGED now

load_fraud_data_aux(s) ==
    /\ ops[s].pc = "load_fraud_data:aux"
    /\ \E aux \in AuxReplies :
         Return(s,
                Finally(update_cache_timestamp(FraudOptions(self, aux), "fraud", now)),
                <<aux>>)
    /\ UNCHANGED now

-----------------------------------------------------------------------------
(* Texts typed by the user: sequences of characters over the alphabet      *)
(* digits, ".", "+", "-", " " and the letters a, b, c, x (no exponent,     *)
(* underscore, inf or nan can be spelled), for which float() and int()     *)
(* accept exactly the literals below.                                      *)

IsDigit(c) == \E i \in DOMAIN Digit : Digit[i] = c

DigitValue(c) == (CHOOSE i \in DOMAIN Digit : Digit[i] = c) - 1

RECURSIVE LStrip(_)
LStrip(t) == IF t # << >> /\ Head(t) = " " THEN LStrip(Tail(t)) ELSE t

RECURSIVE RStrip(_)
RStrip(t) ==
    IF t # << >> /\ t[Len(t)] = " " THEN RStrip(SubSeq(t, 1, Len(t) - 1)) ELSE t

Strip(t) == RStrip(LStrip(t))

Unsigned(t) == IF t # << >> /\ Head(t) \in {"+", "-"} THEN Tail(t) ELSE t

\* int(t) does not raise ValueError
IsIntLiteral(t) ==
    LET u == Unsigned(Strip(t))
    IN  u # << >> /\ \A i \in DOMAIN u : IsDigit(u[i])

\* float(t) does not raise ValueError
IsFloatLiteral(t) ==
    LET u == Unsigned(Strip(t))
    IN  /\ \A i \in DOMAIN u : IsDigit(u[i]) \/ u[i] = "."
        /\ Cardinality({i \in DOMAIN u : u[i] = "."}) <= 1
        /\ \E i \in DOMAIN u : IsDigit(u[i])

RECURSIVE DigitsValue(_)
DigitsValue(u) ==
    IF u = << >> THEN 0
    ELSE 10 * DigitsValue(SubSeq(u, 1, Len(u) - 1)) + DigitValue(u[Len(u)])

\* int(t) of an int literal
IntValue(t) ==
    LET v == DigitsValue(Unsigned(Strip(t)))
    IN  IF Head(Strip(t)) = "-" THEN 0 - v ELSE v

\* float(t) of a float literal: its digits and the place of its point
FloatValue(t) ==
    LET u == Unsigned(Strip(t))
        point == {i \in DOMAIN u : u[i] = "."}
        d == SelectSeq(u, IsDigit)
        places == IF point = {} THEN 0 ELSE Len(u) - (CHOOSE i \in point : TRUE)
        v == DigitsValue(d)
    IN  [num |-> IF Head(Strip(t)) = "-" THEN 0 - v ELSE v, places |-> places]

\* the characters of str(n), n >= 0
RECURSIVE chars(_)
chars(n) ==
    IF n < 10 THEN <<Digit[n + 1]>> ELSE Append(chars(n \div 10), Digit[(n % 10) + 1])

\* None, or the value
None == << >>
Some(v) == <<v>>

-----------------------------------------------------------------------------
(* Filter setters                                                          *)

\* a handler without an await: it runs to its end in one step
Sync(s, op, post) ==
    /\ ops[s] = Idle
    /\ Done(s, op, post)
    /\ UNCHANGED now

set_filter_use_chip(s, value) ==
    Sync(s, "set_filter_use_chip",
         [self EXCEPT !.filter_use_chip = IF value # "All" THEN value ELSE ""])

set_filter_min_amount(s, value) ==
    Sync(s, "set_filter_min_amount", [self EXCEPT !.filter_min_amount = value])

set_filter_max_amount(s, value) ==
    Sync(s, "set_filter_max_amount", [self EXCEPT !.filter_max_amount = value])

set_filter_merchant_state(s, value) ==
    Sync(s, "set_filter_merchant_state", [self EXCEPT !.filter_merchant_state = value])

set_filter_is_fraud(s, value) ==
    Sync(s, "set_filter_is_fraud",
         [self EXCEPT !.filter_is_fraud =
             IF value = "Fraudulent" THEN Some(1)
             ELSE IF value = "Legitimate" THEN Some(0)
             ELSE None])

\* the reset that leaves the page number
reset_filters_keep_page(s) ==
    Sync(s, "reset_filters",
         [self EXCEPT !.filter_use_chip = "",
                      !.filter_is_fraud = None,
                      !.filter_min_amount = Empty,
                      !.filter_max_amount = Empty,
                      !.filter_merchant_state = ""])

reset_filters(s) ==
    Sync(s, "reset_filters",
         [self EXCEPT !.filter_use_chip = "",
                      !.filter_is_fraud = None,
                      !.filter_min_amount = Empty,
                      !.filter_max_amount = Empty,
                      !.filter_merchant_state = "",
                      !.current_page = 1])

-----------------------------------------------------------------------------
(* load_transactions, next_page, prev_page                                 *)

TransactionsReplies ==
    {Fail, Ok(Empty),
     Ok([transactions |-> <<TxA, TxB>>, total |-> 120]),
     Ok([transactions |-> <<TxB>>, total |-> 51]),
     Ok([transactions |-> <<TxA, TxBad>>, total |-> 120])}

TransactionsCall(st) ==
    [ep |-> "/api/transactions",
     page |-> st.current_page,
     limit |-> st.items_per_page,
     use_chip |-> IF st.filter_use_chip # "" THEN Some(st.filter_use_chip) ELSE None,
     is_fraud |-> st.filter_is_fraud,
     min_amount |-> IF Truthy(st.filter_min_amount)
                    THEN Some(FloatValue(st.filter_min_amount)) ELSE None,
     max_amount |-> IF Truthy(st.filter_max_amount)
                    THEN Some(FloatValue(st.filter_max_amount)) ELSE None,
     merchant_state |-> IF st.filter_merchant_state # ""
                        THEN Some(st.filter_merchant_state) ELSE None]

\* the maximum amount going unchecked
TransactionsBeginMinOnly(st) ==
    IF Truthy(st.filter_min_amount) /\ ~IsFloatLiteral(st.filter_min_amount)
    THEN [exit |-> TRUE, st |-> Finally(Raise(Begin(st), "Invalid minimum amount"))]
    ELSE [exit |-> FALSE, issued |-> << [ep |-> "/api/transactions"] >>,
          st |-> Begin(st)]

\* load_transactions up to its await: whether it returned before it, the
\* state it leaves and the request it issued
TransactionsBegin(st) ==
    IF Truthy(st.filter_min_amount) /\ ~IsFloatLiteral(st.filter_min_amount)
    THEN [exit |-> TRUE, st |-> Finally(Raise(Begin(st), "Invalid minimum amount"))]
    ELSE IF Truthy(st.filter_max_amount) /\ ~IsFloatLiteral(st.filter_max_amount)
    THEN [exit |-> TRUE, st |-> Finally(Raise(Begin(st), "Invalid maximum amount"))]
    ELSE [exit |-> FALSE, issued |-> <<TransactionsCall(st)>>, st |-> Begin(st)]

\* a response that finds a page already published is dropped
TransactionsProcessFirstWins(st, r) ==
    IF ~r.ok
    THEN Finally(Raise(st, "Error loading transactions"))
    ELSE
      LET items == Get(r.val, "transactions", << >>)
      IN  IF ~AllValidate(items, TransactionRequired)
          THEN Finally(Raise(st, "Error loading transactions"))
          ELSE IF Truthy(st.transactions)
          THEN Finally(st)
          ELSE Finally([st EXCEPT !.transactions = MapSeq(Transaction, items),
                                  !.total_transactions = Get(r.val, "total", 0)])

\* load_transactions after its await
TransactionsProcess(st, r) ==
    IF ~r.ok
    THEN Finally(Raise(st, "Error loading transactions"))
    ELSE
      LET items == Get(r.val, "transactions", << >>)
      IN  IF ~AllValidate(items, TransactionRequired)
          THEN Finally(Raise(st, "Error loading transactions"))
          ELSE Finally([st EXCEPT !.transactions = MapSeq(Transaction, items),
                                  !.total_transactions = Get(r.val, "total", 0)])

\* the handler `op` goes on into load_transactions from the state `st`
Launch(s, op, st) ==
    LET b == TransactionsBegin(st)
    IN  IF b.exit
        THEN Done(s, op, b.st)
        ELSE Await(s, op, "load_transactions", b.st, b.issued, Empty)

\* the load behind a guard on the cache registry, as the cached loads have
load_transactions_cached(s) ==
    /\ ops[s] = Idle
    /\ IF is_cache_valid(self, "transaction_types", now) /\ Truthy(self.transactions)
       THEN Done(s, "load_transactions", self)
       ELSE Launch(s, "load_transactions", self)
    /\ UNCHANGED now

load_transactions(s) ==
    /\ ops[s] = Idle
    /\ Launch(s, "load_transactions", self)
    /\ UNCHANGED now

load_transactions_returned(s) ==
    /\ ops[s].pc = "load_transactions"
    /\ \E r \in TransactionsReplies :
         Return(s, TransactionsProcess(self, r), <<r>>)
    /\ UNCHANGED now

TotalPages(total, per_page) == (total + per_page - 1) \div per_page

next_page(s) ==
    /\ ops[s] = Idle
    /\ IF self.items_per_page <= 0
       THEN Done(s, "next_page", self)
       ELSE IF self.current_page < TotalPages(self.total_transactions, self.items_per_page)
       THEN Launch(s, "next_page", [self EXCEPT !.current_page = @ + 1])
       ELSE Done(s, "next_page", self)
    /\ UNCHANGED now

\* the decrement without its guard
prev_page_unguarded(s) ==
    /\ ops[s] = Idle
    /\ Launch(s, "prev_page", [self EXCEPT !.current_page = @ - 1])
    /\ UNCHANGED now

prev_page(s) ==
    /\ ops[s] = Idle
    /\ IF self.current_page > 1
       THEN Launch(s, "prev_page", [self EXCEPT !.current_page = @ - 1])
       ELSE Done(s, "prev_page", self)
    /\ UNCHANGED now

-----------------------------------------------------------------------------
(* load_transaction_types                                                  *)

TransactionTypesReplies ==
    {Fail, Ok(<< >>), Ok(<<"Swipe Transaction", "Chip Transaction">>)}

TransactionTypesCached(st, t) ==
    is_cache_valid(st, "transaction_types", t) /\ Truthy(st.transaction_types)

\* the cache entry renewed whether the call succeeded or failed
TransactionTypesProcessTouched(st, r, t) ==
    IF r.ok
    THEN update_cache_timestamp([st EXCEPT !.transaction_types = r.val],
                                "transaction_types", t)
    ELSE update_cache_timestamp(Raise(st, "Error loading transaction types"),
                                "transaction_types", t)

TransactionTypesProcess(st, r, t) ==
    IF r.ok
    THEN update_cache_timestamp([st EXCEPT !.transaction_types = r.val],
                                "transaction_types", t)
    ELSE Raise(st, "Error loading transaction types")

load_transaction_types(s) ==
    /\ ops[s] = Idle
    /\ IF TransactionTypesCached(self, now)
       THEN Done(s, "load_transaction_types", self)
       ELSE Await(s, "load_transaction_types", "load_transaction_types", self,
                  << [ep |-> "/api/transactions/types"] >>, Empty)
    /\ UNCHANGED now

load_transaction_types_returned(s) ==
    /\ ops[s].pc = "load_transaction_types"
    /\ \E r \in TransactionTypesReplies :
         Return(s, TransactionTypesProcess(self, r, now), <<r>>)
    /\ UNCHANGED now

-----------------------------------------------------------------------------
(* Customers: load_customers, load_top_customers and the navigation        *)

CuA == [id |-> 101, transactions_count |-> 4, total_amount |-> 100]

CuB == [id |-> 102, transactions_count |-> 0, total_amount |-> 0, fraud_count |-> 2]

\* a record that carries its avg_amount, other than total / count
CuC == [id |-> 104, transactions_count |-> 4, total_amount |-> 100, avg_amount |-> 30]

\* a record that carries its id only
CuBad == [id |-> 103]

\* GET /api/customers answers {customers: [...], total: int}, the customers
\* being records or bare identifiers
CustomersReplies ==
    {Fail, Ok(Empty),
     Ok([customers |-> <<CuA, CuB, CuC>>, total |-> 120]),
     Ok([customers |-> <<CuB>>, total |-> 51]),
     Ok([customers |-> <<CuA, CuBad>>, total |-> 120])}

CustomersIdReplies == {Ok([customers |-> <<101, 102>>, total |-> 2])}

TopCustomersReplies ==
    {Fail, Ok(<< >>), Ok(<<CuA, CuB, CuC>>), Ok(<<CuA, CuBad>>)}

TopCustomersIdReplies == {Ok(<<101, 102>>)}

\* GET /api/customers/{id}: a failure, an empty body, a body that carries
\* the id only, or the profile
ProfileKinds == {"fail", "empty", "bad", "profile"}

ProfileReply(kind, cid) ==
    IF kind = "fail" THEN Fail
    ELSE IF kind = "empty" THEN Ok(Empty)
    ELSE IF kind = "bad" THEN Ok([id |-> cid])
    ELSE Ok([id |-> cid, transactions_count |-> 4, total_amount |-> 100])

ProfileCall(cid) == [ep |-> "/api/customers/{id}", id |-> cid]

\* total / count on the amounts of the model, which divide exactly
Average(total, count) == IF count > 0 THEN total \div count ELSE 0

\* the loop computing avg_amount over the one a record carries
WithAvgAmountRecomputed(item) ==
    IF Truthy(item)
    THEN Put(item, "avg_amount",
             Average(Get(item, "total_amount", 0), Get(item, "transactions_count", 0)))
    ELSE item

\* the loop that fills in avg_amount
WithAvgAmount(item) ==
    IF Truthy(item) /\ "avg_amount" \notin DOMAIN item
    THEN Put(item, "avg_amount",
             Average(Get(item, "total_amount", 0), Get(item, "transactions_count", 0)))
    ELSE item

Customer(item) ==
    [id |-> chars(item.id),
     transactions_count |-> item.transactions_count,
     total_amount |-> item.total_amount,
     avg_amount |-> Get(item, "avg_amount", 0),
     fraud_count |-> Get(item, "fraud_count", 0)]

\* [c for c in gathered if not isinstance(c, Exception)]
Succeeded(replies) ==
    LET ok == SelectSeq(replies, LAMBDA r : r.ok)
    IN  [i \in DOMAIN ok |-> ok[i].val]

\* [Customer(item) for item in data if item] on the data with avg_amount
\* filled in: raised or not, and the customers
Customers(customers_data) ==
    LET kept == SelectSeq(MapSeq(WithAvgAmount, customers_data), Truthy)
    IN  IF AllValidate(kept, CustomerRequired)
        THEN [raised |-> FALSE, val |-> MapSeq(Customer, kept)]
        ELSE [raised |-> TRUE]

CustomersCall(st) ==
    [ep |-> "/api/customers", page |-> st.customers_page, limit |-> st.items_per_page]

\* load_customers from the customer data on
CustomersProcess(st, customers_data, result) ==
    LET c == Customers(customers_data)
    IN  IF c.raised
        THEN Finally(Raise(st, "Error loading customers"))
        ELSE Finally([st EXCEPT !.customers = c.val,
                                !.total_customers = Get(result, "total", 0)])

\* the handler `op` goes on into load_customers from the state `st`
LaunchCustomers(s, op, st) ==
    Await(s, op, "load_customers", Begin(st), <<CustomersCall(st)>>, Empty)

load_customers(s) ==
    /\ ops[s] = Idle
    /\ LaunchCustomers(s, "load_customers", self)
    /\ UNCHANGED now

\* the list call returned a failure or a list of records
load_customers_returned(s) ==
    /\ ops[s].pc = "load_customers"
    /\ \E r \in CustomersReplies :
         Return(s,
                IF r.ok
                THEN CustomersProcess(self, Get(r.val, "customers", << >>), r.val)
                ELSE Finally(Raise(self, "Error loading customers")),
                <<r>>)
    /\ UNCHANGED now

\* the list call returned bare identifiers: one profile lookup for each
load_customers_ids(s) ==
    /\ ops[s].pc = "load_customers"
    /\ \E r \in CustomersIdReplies :
         AwaitAgain(s, "load_customers:profiles", self,
                    MapSeq(ProfileCall, r.val.customers), <<r>>, r.val)
    /\ UNCHANGED now

load_customers_gathered(s) ==
    /\ ops[s].pc = "load_customers:profiles"
    /\ \E kinds \in [DOMAIN ops[s].loc.customers -> ProfileKinds] :
         LET rs == [i \in DOMAIN kinds |->
                      ProfileReply(kinds[i], ops[s].loc.customers[i])]
         IN  Return(s, CustomersProcess(self, Succeeded(rs), ops[s].loc), rs)
    /\ UNCHANGED now

next_customers_page(s) ==
    /\ ops[s] = Idle
    /\ IF self.items_per_page <= 0
       THEN Done(s, "next_customers_page", self)
       ELSE IF self.customers_page < TotalPages(self.total_customers, self.items_per_page)
       THEN LaunchCustomers(s, "next_customers_page",
                            [self EXCEPT !.customers_page = @ + 1])
       ELSE Done(s, "next_customers_page", self)
    /\ UNCHANGED now

prev_customers_page(s) ==
    /\ ops[s] = Idle
    /\ IF self.customers_page > 1
       THEN LaunchCustomers(s, "prev_customers_page",
                            [self EXCEPT !.customers_page = @ - 1])
       ELSE Done(s, "prev_customers_page", self)
    /\ UNCHANGED now

TopCustomersCached(st, t) ==
    is_cache_valid(st, "top_customers", t) /\ Truthy(st.top_customers)

\* load_top_customers from the customer data on
TopCustomersProcess(st, top_data, t) ==
    LET c == Customers(top_data)
    IN  IF c.raised
        THEN Raise(st, "Error loading top customers")
        ELSE update_cache_timestamp([st EXCEPT !.top_customers = c.val],
                                    "top_customers", t)

load_top_customers(s) ==
    /\ ops[s] = Idle
    /\ IF TopCustomersCached(self, now)
       THEN Done(s, "load_top_customers", self)
       ELSE Await(s, "load_top_customers", "load_top_customers", self,
                  << [ep |-> "/api/customers/top", n |-> TOP_CUSTOMERS_LIMIT] >>,
                  Empty)
    /\ UNCHANGED now

load_top_customers_returned(s) ==
    /\ ops[s].pc = "load_top_customers"
    /\ \E r \in TopCustomersReplies :
         Return(s,
                IF r.ok
                THEN TopCustomersProcess(self, r.val, now)
                ELSE Raise(self, "Error loading top customers"),
                <<r>>)
    /\ UNCHANGED now

load_top_customers_ids(s) ==
    /\ ops[s].pc = "load_top_customers"
    /\ \E r \in TopCustomersIdReplies :
         AwaitAgain(s, "load_top_customers:profiles", self,
                    MapSeq(ProfileCall, r.val), <<r>>, r.val)
    /\ UNCHANGED now

load_top_customers_gathered(s) ==
    /\ ops[s].pc = "load_top_customers:profiles"
    /\ \E kinds \in [DOMAIN ops[s].loc -> ProfileKinds] :
         LET rs == [i \in DOMAIN kinds |-> ProfileReply(kinds[i], ops[s].loc[i])]
         IN  Return(s, TopCustomersProcess(self, Succeeded(rs), now), rs)
    /\ UNCHANGED now

-----------------------------------------------------------------------------
(* The customer profile: search_customer, load_customer_profile            *)

set_search_customer_id(s, value) ==
    Sync(s, "set_search_customer_id", [self EXCEPT !.search_customer_id = value])

set_customer_profile(s, value) ==
    Sync(s, "set_customer_profile",
         [self EXCEPT !.customer_profile = IF Truthy(value) THEN value[1] ELSE Empty])

clear_customer_profile(s) ==
    Sync(s, "clear_customer_profile", [self EXCEPT !.customer_profile = Empty])

\* the search without its test of an empty text
search_customer_no_empty_check(s) ==
    /\ ops[s] = Idle
    /\ IF ~IsIntLiteral(self.search_customer_id)
       THEN Done(s, "search_customer",
                 Finally(Raise(Begin(self), "Customer ID must be a number")))
       ELSE Await(s, "search_customer", "search_customer", Begin(self),
                  <<ProfileCall(IntValue(self.search_customer_id))>>,
                  IntValue(self.search_customer_id))
    /\ UNCHANGED now

search_customer(s) ==
    /\ ops[s] = Idle
    /\ IF ~Truthy(self.search_customer_id)
       THEN Done(s, "search_customer", Raise(self, "Please enter a customer ID"))
       ELSE IF ~IsIntLiteral(self.search_customer_id)
       THEN Done(s, "search_customer",
                 Finally(Raise(Begin(self), "Customer ID must be a number")))
       ELSE Await(s, "search_customer", "search_customer", Begin(self),
                  <<ProfileCall(IntValue(self.search_customer_id))>>,
                  IntValue(self.search_customer_id))
    /\ UNCHANGED now

\* an empty answer published as the profile
SearchProcessPublished(st, r) ==
    IF ~r.ok
    THEN Finally(Raise(st, "Error searching customer"))
    ELSE Finally([st EXCEPT !.customer_profile = r.val])

SearchProcess(st, r) ==
    IF ~r.ok
    THEN Finally(Raise(st, "Error searching customer"))
    ELSE IF Truthy(r.val)
    THEN Finally([st EXCEPT !.customer_profile = r.val])
    ELSE Finally(Raise(st, "Customer not found"))

search_customer_returned(s) ==
    /\ ops[s].pc = "search_customer"
    /\ \E kind \in ProfileKinds :
         LET r == ProfileReply(kind, ops[s].loc)
         IN  Return(s, SearchProcess(self, r), <<r>>)
    /\ UNCHANGED now

load_customer_profile(s, customer_id) ==
    /\ ops[s] = Idle
    /\ IF ~IsIntLiteral(customer_id)
       THEN Done(s, "load_customer_profile",
                 Finally(Raise(Begin(self), "Error loading customer profile")))
       ELSE Await(s, "load_customer_profile", "load_customer_profile", Begin(self),
                  <<ProfileCall(IntValue(customer_id))>>, IntValue(customer_id))
    /\ UNCHANGED now

\* a failed lookup that takes the shown profile away
CustomerProfileProcessCleared(st, r) ==
    IF r.ok
    THEN Finally([st EXCEPT !.customer_profile = r.val])
    ELSE Finally(Raise([st EXCEPT !.customer_profile = Empty],
                       "Error loading customer profile"))

CustomerProfileProcess(st, r) ==
    IF r.ok
    THEN Finally([st EXCEPT !.customer_profile = r.val])
    ELSE Finally(Raise(st, "Error loading customer profile"))

load_customer_profile_returned(s) ==
    /\ ops[s].pc = "load_customer_profile"
    /\ \E kind \in ProfileKinds :
         LET r == ProfileReply(kind, ops[s].loc)
         IN  Return(s, CustomerProfileProcess(self, r), <<r>>)
    /\ UNCHANGED now

-----------------------------------------------------------------------------
(* predict_fraud                                                           *)

PredictReplies ==
    {Fail, Ok([isFraud |-> TRUE, probability |-> 1]),
     Ok([isFraud |-> FALSE, probability |-> 0])}

\* the prediction asked with the previous one left in place
predict_fraud_kept(s, amount, use_chip, merchant_state, mcc) ==
    /\ ops[s] = Idle
    /\ Await(s, "predict_fraud", "predict_fraud", Begin(self),
             << [ep |-> "/api/fraud/predict",
                 data |-> [amount |-> amount, use_chip |-> use_chip,
                           merchant_state |-> merchant_state, mcc |-> mcc]] >>,
             Empty)
    /\ UNCHANGED now

predict_fraud(s, amount, use_chip, merchant_state, mcc) ==
    /\ ops[s] = Idle
    /\ Await(s, "predict_fraud", "predict_fraud",
             [Begin(self) EXCEPT !.fraud_prediction = Empty],
             << [ep |-> "/api/fraud/predict",
                 data |-> [amount |-> amount, use_chip |-> use_chip,
                           merchant_state |-> merchant_state, mcc |-> mcc]] >>,
             Empty)
    /\ UNCHANGED now

\* a failed prediction that leaves no message
PredictProcessSilent(st, r) ==
    IF r.ok
    THEN Finally([st EXCEPT !.fraud_prediction = r.val])
    ELSE Finally(st)

PredictProcess(st, r) ==
    IF r.ok
    THEN Finally([st EXCEPT !.fraud_prediction = r.val])
    ELSE Finally(Raise(st, "Error predicting fraud"))

predict_fraud_returned(s) ==
    /\ ops[s].pc = "predict_fraud"
    /\ \E r \in PredictReplies :
         Return(s, PredictProcess(self, r), <<r>>)
    /\ UNCHANGED now

\* FraudState.submit_prediction, the handler of the form of the fraud page.
\* The four texts are the fields of the form, which its setters assign
\* whatever they are given.  It holds the AppState of the session
\* (get_state) and assigns the error_message of it itself when a text is
\* missing or does not convert; otherwise it goes on into predict_fraud.
submit_prediction(s, pred_amount, pred_use_chip, pred_merchant_state, pred_mcc) ==
    /\ ops[s] = Idle
    /\ IF ~Truthy(pred_amount)
       THEN Done(s, "submit_prediction",
                 [self EXCEPT !.error_message = "Please enter an amount"])
       ELSE IF ~Truthy(pred_mcc)
       THEN Done(s, "submit_prediction",
                 [self EXCEPT !.error_message = "Please enter a MCC code"])
       ELSE IF pred_merchant_state = ""
       THEN Done(s, "submit_prediction",
                 [self EXCEPT !.error_message = "Please enter a merchant state"])
       ELSE IF ~IsFloatLiteral(pred_amount) \/ ~IsIntLiteral(pred_mcc)
       THEN Done(s, "submit_prediction",
                 [self EXCEPT !.error_message =
                    "Invalid input: Amount must be a number and MCC must be an integer"])
       ELSE Await(s, "submit_prediction", "predict_fraud",
                  [Begin(self) EXCEPT !.fraud_prediction = Empty],
                  << [ep |-> "/api/fraud/predict",
                      data |-> [amount |-> FloatValue(pred_amount),
                                use_chip |-> pred_use_chip,
                                merchant_state |-> pred_merchant_state,
                                mcc |-> IntValue(pred_mcc)]] >>,
                  Empty)
    /\ UNCHANGED now

-----------------------------------------------------------------------------
(* Time and the cache                                                      *)

\* the instants the clock is read at
Times == {0, CACHE_TTL_SECONDS - 1, CACHE_TTL_SECONDS}

\* the clock with a sweep: the entries that have expired are purged
TickSweep ==
    /\ \E t \in Times :
         /\ t > now
         /\ now' = t
         /\ self' = [self EXCEPT !.cache_timestamps =
                       [k \in {j \in DOMAIN @ : t - @[j] < CACHE_TTL_SECONDS} |-> @[k]]]
    /\ just' = Quiet
    /\ UNCHANGED ops

Tick ==
    /\ \E t \in Times : t > now /\ now' = t
    /\ just' = Quiet
    /\ UNCHANGED <<self, ops>>

\* the pop replaced by a reset, whatever the key
invalidate_cache_all(s, cache_key) ==
    /\ ops[s] = Idle
    /\ self' = [self EXCEPT !.cache_timestamps = Empty]
    /\ ops' = ops
    /\ just' = [op |-> "invalidate_cache", pre |-> self, at |-> now,
                issued |-> << >>, replies |-> << >>, raised |-> FALSE,
                arg |-> cache_key, before |-> self, overtaken |-> FALSE]
    /\ UNCHANGED now

invalidate_cache(s, cache_key) ==
    /\ ops[s] = Idle
    /\ self' = IF cache_key # None /\ cache_key[1] # ""
               THEN [self EXCEPT !.cache_timestamps = Pop(@, cache_key[1])]
               ELSE [self EXCEPT !.cache_timestamps = Empty]
    /\ ops' = ops
    /\ just' = [op |-> "invalidate_cache", pre |-> self, at |-> now,
                issued |-> << >>, replies |-> << >>, raised |-> FALSE,
                arg |-> cache_key, before |-> self, overtaken |-> FALSE]
    /\ UNCHANGED now

-----------------------------------------------------------------------------

Init ==
    /\ self = InitSelf
    /\ now = 0
    /\ ops = [s \in Slots |-> Idle]
    /\ just = Quiet

NextDashboard ==
    \/ \E s \in Slots : Serial(s) /\ load_dashboard_data(s)
    \/ \E s \in Slots : load_dashboard_data_gathered(s)
    \/ \E s \in Slots : Serial(s) /\
         \E k \in {<<c>> : c \in {"dashboard"}} \cup {Empty} : invalidate_cache(s, k)
    \/ Tick

SpecDashboard == Init /\ [][NextDashboard]_vars

NextStats ==
    \/ \E s \in Slots : Serial(s) /\ load_stats_data(s)
    \/ \E s \in Slots : load_stats_data_gathered(s)
    \/ \E s \in Slots : Serial(s) /\
         \E k \in {<<c>> : c \in {"stats"}} \cup {Empty} : invalidate_cache(s, k)
    \/ Tick

SpecStats == Init /\ [][NextStats]_vars

NextFraud ==
    \/ \E s \in Slots : Serial(s) /\ load_fraud_data(s)
    \/ \E s \in Slots : load_fraud_data_gathered(s)
    \/ \E s \in Slots : load_fraud_data_aux(s)
    \/ \E s \in Slots : Serial(s) /\
         \E k \in {<<c>> : c \in {"fraud"}} \cup {Empty} : invalidate_cache(s, k)
    \/ Tick

SpecFraud == Init /\ [][NextFraud]_vars

AmountTexts == {Empty, <<" ", "7", ".", "5">>, <<"a", "b", "c">>}

\* the transactions page: the amount filters, the fetch and the navigation
NextTransactions ==
    \/ \E s \in Slots : Serial(s) /\ load_transactions(s)
    \/ \E s \in Slots : load_transactions_returned(s)
    \/ \E s \in Slots : Serial(s) /\ next_page(s)
    \/ \E s \in Slots : Serial(s) /\ prev_page(s)
    \/ \E s \in Slots : Serial(s) /\ reset_filters(s)
    \/ \E s \in Slots : Serial(s) /\
         \E v \in AmountTexts : set_filter_min_amount(s, v)
    \/ \E s \in Slots : Serial(s) /\
         \E v \in AmountTexts : set_filter_max_amount(s, v)

SpecTransactions == Init /\ [][NextTransactions]_vars

\* the transactions page: the dropdown filters and the fetch
NextFilters ==
    \/ \E s \in Slots : Serial(s) /\ load_transactions(s)
    \/ \E s \in Slots : load_transactions_returned(s)
    \/ \E s \in Slots : Serial(s) /\ reset_filters(s)
    \/ \E s \in Slots : Serial(s) /\
         \E v \in {"All", "Chip Transaction"} : set_filter_use_chip(s, v)
    \/ \E s \in Slots : Serial(s) /\
         \E v \in {"All", "Fraudulent", "Legitimate"} : set_filter_is_fraud(s, v)
    \/ \E s \in Slots : Serial(s) /\
         \E v \in {"", "CA"} : set_filter_merchant_state(s, v)

SpecFilters == Init /\ [][NextFilters]_vars

NextTransactionTypes ==
    \/ \E s \in Slots : Serial(s) /\ load_transaction_types(s)
    \/ \E s \in Slots : load_transaction_types_returned(s)
    \/ \E s \in Slots : Serial(s) /\
         \E k \in {<<c>> : c \in {"transaction_types"}} \cup {Empty} :
            invalidate_cache(s, k)
    \/ Tick

SpecTransactionTypes == Init /\ [][NextTransactionTypes]_vars

NextCustomers ==
    \/ \E s \in Slots : Serial(s) /\ load_customers(s)
    \/ \E s \in Slots : load_customers_returned(s)
    \/ \E s \in Slots : load_customers_ids(s)
    \/ \E s \in Slots : load_customers_gathered(s)
    \/ \E s \in Slots : Serial(s) /\ next_customers_page(s)
    \/ \E s \in Slots : Serial(s) /\ prev_customers_page(s)

SpecCustomers == Init /\ [][NextCustomers]_vars

NextTopCustomers ==
    \/ \E s \in Slots : Serial(s) /\ load_top_customers(s)
    \/ \E s \in Slots : load_top_customers_returned(s)
    \/ \E s \in Slots : load_top_customers_ids(s)
    \/ \E s \in Slots : load_top_customers_gathered(s)
    \/ \E s \in Slots : Serial(s) /\
         \E k \in {<<c>> : c \in {"top_customers"}} \cup {Empty} :
            invalidate_cache(s, k)
    \/ Tick

SpecTopCustomers == Init /\ [][NextTopCustomers]_vars

SearchTexts == {Empty, <<"1", "0", "1">>, <<"1", ".", "5">>, <<"x">>}

ProfileTexts == {<<"1", "0", "2">>, <<"x">>}

NextProfile ==
    \/ \E s \in Slots : Serial(s) /\
         \E v \in SearchTexts : set_search_customer_id(s, v)
    \/ \E s \in Slots : Serial(s) /\ search_customer(s)
    \/ \E s \in Slots : search_customer_returned(s)
    \/ \E s \in Slots : Serial(s) /\
         \E v \in ProfileTexts : load_customer_profile(s, v)
    \/ \E s \in Slots : load_customer_profile_returned(s)
    \/ \E s \in Slots : Serial(s) /\ set_customer_profile(s, None)
    \/ \E s \in Slots : Serial(s) /\ clear_customer_profile(s)

SpecProfile == Init /\ [][NextProfile]_vars

NextPredict ==
    \/ \E s \in Slots : Serial(s) /\
         \E amount \in {25, 900}, merchant_state \in {"CA", "PR"} :
            predict_fraud(s, amount, "Swipe Transaction", merchant_state, 5411)
    \/ \E s \in Slots : predict_fraud_returned(s)

SpecPredict == Init /\ [][NextPredict]_vars

PredAmountTexts == {Empty, <<"2", "5">>, <<"x">>}

PredMccTexts == {Empty, <<"5", "4", "1", "1">>, <<"1", ".", "5">>}

\* the fraud page: its load on mount, the form and the prediction
NextFraudPage ==
    \/ NextFraud
    \/ NextPredict
    \/ \E s \in Slots : Serial(s) /\
         \E pred_amount \in PredAmountTexts, pred_mcc \in PredMccTexts,
            pred_merchant_state \in {"", "CA"} :
            submit_prediction(s, pred_amount, "Swipe Transaction",
                              pred_merchant_state, pred_mcc)

SpecFraudPage == Init /\ [][NextFraudPage]_vars

\* the transactions page with each of its five filters set or not, next to
\* a section that has an entry in the cache registry
NextTransactionsPage ==
    \/ \E s \in Slots : Serial(s) /\ load_transactions(s)
    \/ \E s \in Slots : load_transactions_returned(s)
    \/ \E s \in Slots : Serial(s) /\ next_page(s)
    \/ \E s \in Slots : Serial(s) /\ reset_filters(s)
    \/ \E s \in Slots : Serial(s) /\ set_filter_use_chip(s, "Chip Transaction")
    \/ \E s \in Slots : Serial(s) /\ set_filter_is_fraud(s, "Fraudulent")
    \/ \E s \in Slots : Serial(s) /\ set_filter_merchant_state(s, "CA")
    \/ \E s \in Slots : Serial(s) /\ set_filter_min_amount(s, <<" ", "7", ".", "5">>)
    \/ \E s \in Slots : Serial(s) /\ set_filter_max_amount(s, <<"9">>)
    \/ \E s \in Slots : Serial(s) /\ load_transaction_types(s)
    \/ \E s \in Slots : load_transaction_types_returned(s)

SpecTransactionsPage == Init /\ [][NextTransactionsPage]_vars

-----------------------------------------------------------------------------
(* The whole orchestrator.  The handlers of one group write the fields of  *)
(* that group and, of the rest, only is_loading, error_message and the     *)
(* group's cache key; a session is explored with one group at a time: a    *)
(* group's handlers are taken while the fields and the cache keys of the   *)
(* other groups are as constructed.                                        *)

Fields ==
    [shared |-> {"is_loading", "error_message", "cache_timestamps", "items_per_page"},
     dashboard |->
        {"stats_overview", "recent_transactions", "system_health", "system_metadata"},
     stats |-> {"amount_distribution", "stats_by_type", "daily_stats"},
     fraud |-> {"fraud_summary", "fraud_by_type", "merchant_states", "mcc_codes"},
     predict |-> {"fraud_prediction"},
     transactions |->
        {"transactions", "total_transactions", "current_page", "filter_min_amount",
         "filter_max_amount"},
     filters |->
        {"transactions", "total_transactions", "current_page", "filter_use_chip",
         "filter_is_fraud", "filter_merchant_state"},
     transaction_types |-> {"transaction_types"},
     customers |-> {"customers", "total_customers", "customers_page"},
     top_customers |-> {"top_customers"},
     profile |-> {"customer_profile", "search_customer_id"}]

Only(fields, keys) ==
    /\ \A f \in DOMAIN InitSelf \ (fields \cup Fields.shared) : self[f] = InitSelf[f]
    /\ DOMAIN self.cache_timestamps \subseteq keys

Next ==
    \/ Only(Fields.dashboard, {"dashboard"}) /\ NextDashboard
    \/ Only(Fields.stats, {"stats"}) /\ NextStats
    \/ Only(Fields.fraud, {"fraud"}) /\ NextFraud
    \/ Only(Fields.predict, {}) /\ NextPredict
    \/ Only(Fields.transactions, {}) /\ NextTransactions
    \/ Only(Fields.filters, {}) /\ NextFilters
    \/ Only(Fields.transaction_types, {"transaction_types"}) /\ NextTransactionTypes
    \/ Only(Fields.customers, {}) /\ NextCustomers
    \/ Only(Fields.top_customers, {"top_customers"}) /\ NextTopCustomers
    \/ Only(Fields.profile, {}) /\ NextProfile

Spec == Init /\ [][Next]_vars

\* A remote call returns, a success or a failure, and the handler that
\* awaits it goes on.
Resume ==
    \E s \in Slots :
        \/ load_dashboard_data_gathered(s)
        \/ load_stats_data_gathered(s)
        \/ load_fraud_data_gathered(s)
        \/ load_fraud_data_aux(s)
        \/ load_transactions_returned(s)
        \/ load_transaction_types_returned(s)
        \/ load_customers_returned(s)
        \/ load_customers_ids(s)
        \/ load_customers_gathered(s)
        \/ load_top_customers_returned(s)
        \/ load_top_customers_ids(s)
        \/ load_top_customers_gathered(s)
        \/ search_customer_returned(s)
        \/ load_customer_profile_returned(s)
        \/ predict_fraud_returned(s)

\* The orchestrator when every remote call eventually returns: the api
\* client gives each request a timeout (services/api_client.py:17, 32), so
\* an awaited call ends in a result or in an exception.
NextLive ==
    \/ Only(Fields.dashboard, {"dashboard"}) /\ NextDashboard
    \/ Only(Fields.fraud, {"fraud"}) /\ NextFraud
    \/ Only(Fields.customers, {}) /\ NextCustomers
    \/ Only(Fields.profile, {}) /\ NextProfile

SpecLive == Init /\ [][NextLive]_vars /\ WF_vars(Resume)

\* the sections with a cache key
NextCached ==
    \/ Only(Fields.dashboard, {"dashboard"}) /\ NextDashboard
    \/ Only(Fields.stats, {"stats"}) /\ NextStats
    \/ Only(Fields.fraud, {"fraud"}) /\ NextFraud
    \/ Only(Fields.transaction_types, {"transaction_types"}) /\ NextTransactionTypes
    \/ Only(Fields.top_customers, {"top_customers"}) /\ NextTopCustomers

SpecCached == Init /\ [][NextCached]_vars

\* The cache registry with several keys in it: two of the cached loads in
\* one session, and invalidate_cache with no key, an empty key, and each key.
NextRegistry ==
    \/ \E s \in Slots : Serial(s) /\ load_transaction_types(s)
    \/ \E s \in Slots : load_transaction_types_returned(s)
    \/ \E s \in Slots : Serial(s) /\ load_top_customers(s)
    \/ \E s \in Slots : load_top_customers_returned(s)
    \/ \E s \in Slots : Serial(s) /\
         \E k \in {None, Some("")} \cup {Some(c) : c \in CacheKeys} :
            invalidate_cache(s, k)
    \/ Tick

SpecRegistry == Init /\ [][NextRegistry]_vars

\* The two paginated lists, each next to the cached section of its page:
\* the transactions with the transaction types, the customers with the top
\* customers.
NextLists ==
    \/ /\ Only(Fields.transactions \cup Fields.transaction_types,
                {"transaction_types"})
       /\ \/ \E s \in Slots : Serial(s) /\ load_transactions(s)
          \/ \E s \in Slots : load_transactions_returned(s)
          \/ \E s \in Slots : Serial(s) /\ next_page(s)
          \/ \E s \in Slots : Serial(s) /\
               \E v \in AmountTexts : set_filter_min_amount(s, v)
          \/ \E s \in Slots : Serial(s) /\ load_transaction_types(s)
          \/ \E s \in Slots : load_transaction_types_returned(s)
          \/ Tick
    \/ /\ Only(Fields.customers \cup Fields.top_customers, {"top_customers"})
       /\ \/ NextCustomers
          \/ NextTopCustomers

SpecLists == Init /\ [][NextLists]_vars

-----------------------------------------------------------------------------
(* The navigation handlers on any pagination state: the page size is a     *)
(* field of the instance, which next_page and next_customers_page read as  *)
(* a value that may be zero or negative.                                   *)

MaxPage == 3

PageSizes == {0 - 1, 0, ITEMS_PER_PAGE}

Totals == {0, 51, 120}

InitPaging ==
    /\ \E size \in PageSizes, page \in 1..MaxPage, total \in Totals :
         self = [InitSelf EXCEPT !.items_per_page = size,
                                 !.current_page = page,
                                 !.customers_page = page,
                                 !.total_transactions = total,
                                 !.total_customers = total]
    /\ now = 0
    /\ ops = [s \in Slots |-> Idle]
    /\ just = Quiet

NextPaging ==
    \/ \E s \in Slots : Serial(s) /\ next_page(s)
    \/ \E s \in Slots : Serial(s) /\ prev_page(s)
    \/ \E s \in Slots : load_transactions_returned(s)
    \/ \E s \in Slots : Serial(s) /\ next_customers_page(s)
    \/ \E s \in Slots : Serial(s) /\ prev_customers_page(s)
    \/ \E s \in Slots : load_customers_returned(s)

SpecPaging == InitPaging /\ [][NextPaging]_vars

\* Two handlers of the transactions page in flight at once: a handler
\* starts in any free slot, whatever the other slot is doing, and the
\* responses come back in any order.
NextOverlap ==
    \/ \E s \in Slots : load_transactions(s)
    \/ \E s \in Slots : load_transactions_returned(s)
    \/ \E s \in Slots : next_page(s)
    \/ \E s \in Slots : prev_page(s)

SpecOverlap == Init /\ [][NextOverlap]_vars

-----------------------------------------------------------------------------
(* Properties                                                              *)

AllIdle == \A s \in Slots : ops[s] = Idle

FanOutLoads == {"load_dashboard_data", "load_fraud_data", "load_stats_data"}

CachedLoads ==
    FanOutLoads \cup {"load_top_customers", "load_transaction_types"}

\* the published field of each call of a fan-out batch, in the order of the calls
FanOutFields(op) ==
    CASE op = "load_dashboard_data" ->
           <<"stats_overview", "recent_transactions", "system_health",
             "system_metadata">>
      [] op = "load_fraud_data" -> <<"fraud_summary", "fraud_by_type">>
      [] op = "load_stats_data" ->
           <<"amount_distribution", "stats_by_type", "daily_stats">>

\* the handler that has just exited got an answer to every call and each
\* of them was a failure
AllFailed ==
    /\ just.replies # << >>
    /\ \A i \in DOMAIN just.replies : ~just.replies[i].ok

\* the records of a fetched collection that parse, as entities
Parsed(F(_), items, required) ==
    MapSeq(F, SelectSeq(items, LAMBDA item : Validates(item, required)))

\* what a successful call of a fan-out batch is to publish
Normalized(op, i, val) ==
    CASE op = "load_dashboard_data" /\ i = 2 ->
           Parsed(Transaction, val, TransactionRequired)
      [] op = "load_dashboard_data" /\ i = 4 -> Put(val, "version", "1.1.0")
      [] op = "load_fraud_data" /\ i = 2 -> Parsed(FraudStat, val, FraudStatRequired)
      [] op = "load_stats_data" /\ i = 2 -> Parsed(TypeStat, val, TypeStatRequired)
      [] op = "load_stats_data" /\ i = 3 -> Parsed(DailyStat, val, DailyStatRequired)
      [] OTHER -> val

\* an entry for the key exists and is younger than the TTL at time t
Fresh(st, key, t) ==
    /\ key \in DOMAIN st.cache_timestamps
    /\ t - st.cache_timestamps[key] < CACHE_TTL_SECONDS

\* C1: after a fan-out load (dashboard, fraud, stats) whose calls all
\* failed, error_message is non-empty and every published field of the
\* section has the value it had before the load.
C1_TotalFailureReported ==
    (just.op \in FanOutLoads /\ AllFailed) =>
        /\ self.error_message # ""
        /\ \A i \in DOMAIN FanOutFields(just.op) :
             self[FanOutFields(just.op)[i]] = just.pre[FanOutFields(just.op)[i]]

\* C2: after a fan-out load in which at least one call succeeded and at
\* least one failed, every field whose call succeeded holds the new result,
\* every field whose call failed holds its previous value, and
\* error_message is empty.
C2_PartialFailureTolerated ==
    LET fields == FanOutFields(just.op)
        batch == DOMAIN fields \cap DOMAIN just.replies
    IN  ( /\ just.op \in FanOutLoads
          /\ \E i \in batch : just.replies[i].ok
          /\ \E i \in batch : ~just.replies[i].ok ) =>
            /\ self.error_message = ""
            /\ \A i \in batch :
                 IF just.replies[i].ok
                 THEN self[fields[i]] = Normalized(just.op, i, just.replies[i].val)
                 ELSE self[fields[i]] = just.pre[fields[i]]

\* C3: after a cached load in which every remote call failed, the cache
\* registry is as it was before the load.
C3_FailedLoadLeavesCache ==
    (just.op \in CachedLoads /\ AllFailed) =>
        self.cache_timestamps = just.pre.cache_timestamps

\* C4 as claimed: load_dashboard_data invoked while the dashboard key is
\* fresh and stats_overview is non-empty issues no request, whatever the
\* other dashboard fields hold.
C4_StatsOverviewSuffices ==
    ( /\ just.op = "load_dashboard_data"
      /\ Fresh(just.pre, "dashboard", just.at)
      /\ Truthy(just.pre.stats_overview) ) => just.issued = << >>

\* C4 as amended: load_dashboard_data invoked while the dashboard key is
\* fresh and both stats_overview and recent_transactions are non-empty
\* issues no request, whatever system_health and system_metadata hold.
C4_BothCollectionsSuffice ==
    ( /\ just.op = "load_dashboard_data"
      /\ Fresh(just.pre, "dashboard", just.at)
      /\ Truthy(just.pre.stats_overview)
      /\ Truthy(just.pre.recent_transactions) ) => just.issued = << >>

\* a second load_dashboard_data was served from the cache while
\* system_health was still unpublished
C4_Witness ==
    /\ just.op = "load_dashboard_data"
    /\ Fresh(just.pre, "dashboard", just.at)
    /\ Truthy(just.pre.stats_overview)
    /\ Truthy(just.pre.recent_transactions)
    /\ ~Truthy(just.pre.system_health)
    /\ just.issued = << >>

\* the guard of each cached load: its key is fresh and what it publishes
\* (for the dashboard: stats_overview and recent_transactions) is non-empty
ServedFromCache(op, st, t) ==
    CASE op = "load_dashboard_data" ->
           /\ Fresh(st, "dashboard", t)
           /\ Truthy(st.stats_overview) /\ Truthy(st.recent_transactions)
      [] op = "load_fraud_data" -> Fresh(st, "fraud", t) /\ Truthy(st.fraud_summary)
      [] op = "load_stats_data" ->
           Fresh(st, "stats", t) /\ Truthy(st.amount_distribution)
      [] op = "load_top_customers" ->
           Fresh(st, "top_customers", t) /\ Truthy(st.top_customers)
      [] op = "load_transaction_types" ->
           Fresh(st, "transaction_types", t) /\ Truthy(st.transaction_types)

\* C5: a cached load started with its key fresh and its published
\* collection non-empty issues no call and leaves every field of the
\* instance (is_loading, error_message and the cache included) unchanged;
\* started otherwise, it issues its calls.
C5_CacheHitIsNoOp ==
    just.op \in CachedLoads =>
        IF ServedFromCache(just.op, just.pre, just.at)
        THEN just.issued = << >> /\ self = just.pre
        ELSE just.issued # << >>

\* load_top_customers was served from the cache at the last instant of the
\* TTL window
C5_Witness ==
    /\ just.op = "load_top_customers"
    /\ ServedFromCache(just.op, just.pre, just.at)
    /\ just.at - just.pre.cache_timestamps["top_customers"] = CACHE_TTL_SECONDS - 1
    /\ just.issued = << >>

\* C6: whenever no handler is in flight, is_loading is false.
C6_LoadingClearedOnExit == AllIdle => ~self.is_loading

\* a handler that had set the flag has exited on a failure
C6_Witness ==
    /\ AllIdle
    /\ just.op \in {"load_transactions", "search_customer", "load_fraud_data"}
    /\ self.error_message # ""
    /\ ~self.is_loading

\* C7: when a fetched collection holds a record that does not parse, the
\* records that parse are published and error_message stays empty.
C7_BadRecordsDropped ==
    /\ ( /\ just.op = "load_transactions"
         /\ just.replies # << >>
         /\ just.replies[1].ok
         /\ ~AllValidate(Get(just.replies[1].val, "transactions", << >>),
                         TransactionRequired) ) =>
           /\ self.transactions =
                Parsed(Transaction, Get(just.replies[1].val, "transactions", << >>),
                       TransactionRequired)
           /\ self.error_message = ""
    /\ ( /\ just.op = "load_stats_data"
         /\ just.replies # << >>
         /\ just.replies[2].ok
         /\ ~AllValidate(just.replies[2].val, TypeStatRequired) ) =>
           /\ self.stats_by_type = Parsed(TypeStat, just.replies[2].val, TypeStatRequired)
           /\ self.error_message = ""

\* C8: load_transactions with a non-empty, non-numeric minimum issues no
\* call and ends with "Invalid minimum amount" and is_loading false; with
\* an empty or numeric minimum and a non-empty, non-numeric maximum it
\* issues no call and ends with "Invalid maximum amount" and is_loading
\* false.
C8_InvalidAmountRejected ==
    just.op = "load_transactions" =>
        LET min == just.pre.filter_min_amount
            max == just.pre.filter_max_amount
        IN  /\ (Truthy(min) /\ ~IsFloatLiteral(min)) =>
                 /\ just.issued = << >>
                 /\ self.error_message = "Invalid minimum amount"
                 /\ ~self.is_loading
            /\ ( /\ ~Truthy(min) \/ IsFloatLiteral(min)
                 /\ Truthy(max) /\ ~IsFloatLiteral(max) ) =>
                 /\ just.issued = << >>
                 /\ self.error_message = "Invalid maximum amount"
                 /\ ~self.is_loading

\* load_transactions has rejected the maximum next to a numeric minimum
C8_Witness ==
    /\ just.op = "load_transactions"
    /\ IsFloatLiteral(just.pre.filter_min_amount)
    /\ Truthy(just.pre.filter_max_amount)
    /\ self.error_message = "Invalid maximum amount"

\* C9: a handler that ends on a validation failure has changed no field
\* but error_message.
C9_ValidationFailureChangesNothing ==
    ( \/ /\ just.op \in {"load_transactions", "next_page", "prev_page"}
         /\ self.error_message \in {"Invalid minimum amount", "Invalid maximum amount"}
      \/ /\ just.op = "search_customer"
         /\ self.error_message \in
              {"Please enter a customer ID", "Customer ID must be a number"} ) =>
        self = [just.pre EXCEPT !.error_message = self.error_message]

\* the handler that has just exited changed no page and issued no fetch
Stayed ==
    /\ self.current_page = just.pre.current_page
    /\ self.customers_page = just.pre.customers_page
    /\ just.issued = << >>

Ceil(total, size) ==
    CHOOSE n \in 0..total : n * size >= total /\ (n = 0 \/ (n - 1) * size < total)

\* the requests to the endpoint `ep` among those the exited handler issued
IssuedTo(ep) == SelectSeq(just.issued, LAMBDA c : c.ep = ep)

\* C11: next_page and next_customers_page with a positive page size, on a
\* page below ceil(total / page size), add exactly 1 to the page and issue
\* exactly one fetch of the list, for the new page; on any other page they
\* leave the page as it is and issue no fetch.
C11_NextPageAdvances ==
    /\ (just.op = "next_page" /\ just.pre.items_per_page > 0) =>
         IF just.pre.current_page <
               Ceil(just.pre.total_transactions, just.pre.items_per_page)
         THEN /\ self.current_page = just.pre.current_page + 1
              /\ Len(IssuedTo("/api/transactions")) = 1
              /\ IssuedTo("/api/transactions")[1].page = just.pre.current_page + 1
         ELSE /\ self.current_page = just.pre.current_page
              /\ just.issued = << >>
    /\ (just.op = "next_customers_page" /\ just.pre.items_per_page > 0) =>
         IF just.pre.customers_page <
               Ceil(just.pre.total_customers, just.pre.items_per_page)
         THEN /\ self.customers_page = just.pre.customers_page + 1
              /\ Len(IssuedTo("/api/customers")) = 1
              /\ IssuedTo("/api/customers")[1].page = just.pre.customers_page + 1
         ELSE /\ self.customers_page = just.pre.customers_page
              /\ just.issued = << >>

\* C12: prev_page and prev_customers_page on a page above 1 subtract exactly
\* 1 from the page and issue exactly one fetch of the list, for the new
\* page; on page 1 they change nothing and issue no fetch.
C12_PrevPageRetreats ==
    /\ just.op = "prev_page" =>
         IF just.pre.current_page > 1
         THEN /\ self.current_page = just.pre.current_page - 1
              /\ Len(IssuedTo("/api/transactions")) = 1
              /\ IssuedTo("/api/transactions")[1].page = just.pre.current_page - 1
         ELSE self = just.pre /\ just.issued = << >>
    /\ just.op = "prev_customers_page" =>
         IF just.pre.customers_page > 1
         THEN /\ self.customers_page = just.pre.customers_page - 1
              /\ Len(IssuedTo("/api/customers")) = 1
              /\ IssuedTo("/api/customers")[1].page = just.pre.customers_page - 1
         ELSE self = just.pre /\ just.issued = << >>

\* C13: in every reachable state, whatever handlers have run and however
\* they ended, current_page >= 1 and customers_page >= 1.
C13_PagesPositive == self.current_page >= 1 /\ self.customers_page >= 1

\* prev_page has run on page 1, after the page had been 2
C13_Witness ==
    /\ just.op = "prev_page"
    /\ just.pre.current_page = 1
    /\ just.pre.total_transactions > ITEMS_PER_PAGE
    /\ self.current_page = 1

\* the customers to publish for a gathered batch of lookups: those of the
\* lookups that succeeded with a profile, in the order of the identifiers
Looked(lookups) ==
    LET ok == SelectSeq(lookups,
                        LAMBDA r : r.ok /\ Validates(r.val, CustomerRequired))
    IN  [i \in DOMAIN ok |-> Customer(WithAvgAmount(ok[i].val))]

\* C14: when the customers endpoint answers bare identifiers, load_customers
\* issues one profile lookup per identifier, publishes exactly the profiles
\* whose lookup succeeded, leaves error_message empty and sets
\* total_customers to the total of the list answer.
C14_LookupPerIdentifier ==
    ( /\ just.op = "load_customers"
      /\ Len(just.replies) > 1
      /\ just.replies[1] \in CustomersIdReplies ) =>
        LET result == just.replies[1].val
            n == Len(result.customers)
        IN  /\ SubSeq(just.issued, 2, Len(just.issued)) =
                 [i \in 1..n |-> ProfileCall(result.customers[i])]
            /\ self.customers = Looked(SubSeq(just.replies, 2, n + 1))
            /\ self.total_customers = result.total
            /\ self.error_message = ""

\* C15: _is_cache_valid(key) is true exactly when the registry has an entry
\* for the key and now - entry < 60; it is false for an absent key and
\* false at an age of exactly 60.
C15_FreshIffYoungEntry ==
    \A key \in CacheKeys :
       is_cache_valid(self, key, now) <=>
          /\ key \in DOMAIN self.cache_timestamps
          /\ now - self.cache_timestamps[key] < 60

\* one key is absent and the other has an entry of age exactly 60: neither
\* is fresh
C15_Witness ==
    /\ "top_customers" \notin DOMAIN self.cache_timestamps
    /\ ~is_cache_valid(self, "top_customers", now)
    /\ "transaction_types" \in DOMAIN self.cache_timestamps
    /\ now - self.cache_timestamps["transaction_types"] = 60
    /\ ~is_cache_valid(self, "transaction_types", now)

\* the load that refreshes the entry of a key
LoadOf(key) ==
    CASE key = "dashboard" -> "load_dashboard_data"
      [] key = "fraud" -> "load_fraud_data"
      [] key = "stats" -> "load_stats_data"
      [] key = "top_customers" -> "load_top_customers"
      [] key = "transaction_types" -> "load_transaction_types"

\* this step created the entry of the key or changed its time
Touched(key) ==
    /\ key \in DOMAIN self'.cache_timestamps
    /\ key \notin DOMAIN self.cache_timestamps
         \/ self.cache_timestamps[key] # self'.cache_timestamps[key]

\* C16: the entry of a key changes only when the load of that key touches
\* it, whatever happens to the other keys; the touch records the current
\* time, so that the key is fresh right after it; and once 60 time units
\* have passed since that touch the key is not fresh.
C16_FreshWindowPerKey ==
    /\ [][\A key \in CacheKeys :
            Touched(key) =>
               /\ just'.op = LoadOf(key)
               /\ self'.cache_timestamps[key] = now'
               /\ is_cache_valid(self', key, now')]_vars
    /\ [](\A key \in DOMAIN self.cache_timestamps :
            now - self.cache_timestamps[key] >= 60 => ~is_cache_valid(self, key, now))

\* two keys side by side: the one touched 60 time units ago is stale while
\* the one touched just now, by the load that has just exited, is fresh
C16_Witness ==
    /\ just.op = "load_top_customers"
    /\ DOMAIN self.cache_timestamps = {"transaction_types", "top_customers"}
    /\ self.cache_timestamps["top_customers"] = now
    /\ is_cache_valid(self, "top_customers", now)
    /\ now - self.cache_timestamps["transaction_types"] = 60
    /\ ~is_cache_valid(self, "transaction_types", now)

C18_NoExpirySweep ==
    [][DOMAIN self.cache_timestamps \subseteq DOMAIN self'.cache_timestamps
         \/ just'.op = "invalidate_cache"]_vars

\* a load has found its entry stale and failed: the stale entry is still
\* in the registry
C18_Witness ==
    /\ just.op = "load_transaction_types"
    /\ just.issued # << >>
    /\ "transaction_types" \in DOMAIN just.pre.cache_timestamps
    /\ just.at - just.pre.cache_timestamps["transaction_types"] >= CACHE_TTL_SECONDS
    /\ "transaction_types" \in DOMAIN self.cache_timestamps
    /\ ~is_cache_valid(self, "transaction_types", now)

\* the loads of the sections
SectionLoads ==
    CachedLoads \cup {"load_transactions", "load_customers"}

\* C19: while a load of a section has requests in flight, is_loading is
\* true and error_message is empty.
C19_LoadingSetBeforeCalls ==
    \A s \in Slots :
       (ops[s] # Idle /\ ops[s].op \in SectionLoads /\ ops[s].issued # << >>) =>
           self.is_loading /\ self.error_message = ""

\* C20: no handler ends with an exception for its caller, whatever the
\* remote calls answer and whatever the user has typed; a handler whose
\* single (or first) remote call fails ends with error_message set.
C20_NothingRaised ==
    just.op # "none" =>
        /\ ~just.raised
        /\ ( /\ just.op \notin FanOutLoads
             /\ just.replies # << >>
             /\ ~just.replies[1].ok ) => self.error_message # ""

\* load_customer_profile was given an id that is no number: int() raised
\* before any request, and the handler ended with the message
C20_Witness ==
    /\ just.op = "load_customer_profile"
    /\ just.issued = << >>
    /\ ~just.raised
    /\ self.error_message = "Error loading customer profile"
    /\ ~self.is_loading

\* C21: when loads of the transactions page overlap, each response is
\* applied as it arrives, with no check of the order the requests were
\* issued in: a response that parses replaces the published page and total
\* with its own, one that failed leaves what it found.  The page published
\* once all have ended is therefore that of the response that came last,
\* even when its request was issued first.
C21_LastResponseWins ==
    ( /\ just.op \in {"load_transactions", "next_page", "prev_page"}
      /\ just.replies # << >> ) =>
        LET r == just.replies[1]
            items == IF r.ok THEN Get(r.val, "transactions", << >>) ELSE << >>
        IN  IF r.ok /\ AllValidate(items, TransactionRequired)
            THEN /\ self.transactions = MapSeq(Transaction, items)
                 /\ self.total_transactions = Get(r.val, "total", 0)
            ELSE /\ self.transactions = just.before.transactions
                 /\ self.total_transactions = just.before.total_transactions

\* a load that a later one has overtaken ends last and replaces the page
\* the later one had published
C21_Witness ==
    /\ AllIdle
    /\ just.op = "load_transactions"
    /\ just.overtaken
    /\ just.replies[1].ok
    /\ just.before.transactions # just.pre.transactions
    /\ self.transactions # just.before.transactions
    /\ Truthy(self.transactions)

\* C22: the published state of AppState is written by the operations of
\* AppState only: a handler of another component that ends without having
\* entered one of them leaves every field as it found it.
C22_OnlyOwnOperationsWrite ==
    (just.op = "submit_prediction" /\ just.issued = << >>) => self = just.before

Predictions == {"predict_fraud", "submit_prediction"}

\* C25: predict_fraud issues one request, to the prediction endpoint, and
\* no other.  While the request is in flight is_loading is true and
\* error_message is empty; when the handler has ended is_loading is false,
\* error_message is set if and only if the request failed, and the cache
\* registry is as it was at entry, a fresh entry in it having neither
\* spared the request nor been renewed.
C25_PredictOneCallNoCache ==
    /\ \A s \in Slots :
          (ops[s] # Idle /\ ops[s].pc = "predict_fraud") =>
              /\ Len(ops[s].issued) = 1
              /\ ops[s].issued[1].ep = "/api/fraud/predict"
              /\ ops[s].replies = << >>
              /\ self.is_loading
              /\ self.error_message = ""
              /\ self.cache_timestamps = ops[s].pre.cache_timestamps
    /\ (just.op = "predict_fraud" \/
        (just.op = "submit_prediction" /\ just.issued # << >>)) =>
              /\ Len(just.issued) = 1
              /\ just.issued[1].ep = "/api/fraud/predict"
              /\ Len(just.replies) = 1
              /\ ~self.is_loading
              /\ self.cache_timestamps = just.pre.cache_timestamps
              /\ (self.error_message # "") <=> ~just.replies[1].ok

\* a prediction that failed, asked while the fraud section was fresh
C25_Witness ==
    /\ just.op = "predict_fraud"
    /\ is_cache_valid(just.pre, "fraud", just.at)
    /\ ~just.replies[1].ok
    /\ self.error_message = "Error predicting fraud"
    /\ ~self.is_loading

FilterFields ==
    {"filter_use_chip", "filter_is_fraud", "filter_min_amount",
     "filter_max_amount", "filter_merchant_state"}

\* C23: reset_filters leaves the five filters empty and current_page at 1,
\* issues no request and leaves every other field, the cache registry
\* included, as it found it; a second reset right after the first changes
\* nothing.
C23_ResetFiltersFrame ==
    /\ [](just.op = "reset_filters" =>
            /\ self.filter_use_chip = ""
            /\ self.filter_is_fraud = None
            /\ self.filter_min_amount = Empty
            /\ self.filter_max_amount = Empty
            /\ self.filter_merchant_state = ""
            /\ self.current_page = 1
            /\ just.issued = << >>
            /\ AllIdle
            /\ \A f \in DOMAIN self \ (FilterFields \cup {"current_page"}) :
                  self[f] = just.pre[f])
    /\ [][(just.op = "reset_filters" /\ just'.op = "reset_filters")
             => self' = self]_vars

\* a reset of five set filters on page 2, with a page of transactions
\* published and an entry in the cache registry
C23_Witness ==
    /\ just.op = "reset_filters"
    /\ \A f \in FilterFields : just.pre[f] # self[f]
    /\ just.pre.current_page = 2
    /\ Truthy(self.transactions)
    /\ self.total_transactions = 120
    /\ self.cache_timestamps # Empty

CustomerLoads ==
    {"load_customers", "next_customers_page", "prev_customers_page",
     "load_top_customers"}

\* the customer data of an exit: the records of the list, or the profiles
\* of the lookups that succeeded, the empty ones left out
CustomersData(j) ==
    LET r == j.replies[1]
        raw == IF j.op = "load_top_customers" THEN r.val
               ELSE Get(r.val, "customers", << >>)
    IN  SelectSeq(IF Len(j.replies) > 1 THEN Succeeded(Tail(j.replies)) ELSE raw,
                  Truthy)

\* the average a record is to be published with
ExpectedAvg(item) ==
    IF "avg_amount" \in DOMAIN item THEN item.avg_amount
    ELSE IF "transactions_count" \in DOMAIN item /\ item.transactions_count > 0
    THEN Get(item, "total_amount", 0) \div item.transactions_count
    ELSE 0

C26_SearchValidation ==
    just.op = "search_customer" =>
        LET text == just.pre.search_customer_id
        IN  /\ text = Empty =>
                  /\ just.issued = << >>
                  /\ self.error_message = "Please enter a customer ID"
                  /\ ~self.is_loading
                  /\ self.customer_profile = just.pre.customer_profile
            /\ text \in {<<"x">>, <<"1", ".", "5">>} =>
                  /\ just.issued = << >>
                  /\ self.error_message = "Customer ID must be a number"
                  /\ ~self.is_loading
                  /\ self.customer_profile = just.pre.customer_profile
            /\ just.issued = << >> => AllIdle

\* a search for "x" made while a profile is shown
C26_Witness ==
    /\ just.op = "search_customer"
    /\ just.pre.search_customer_id = <<"x">>
    /\ just.issued = << >>
    /\ self.error_message = "Customer ID must be a number"
    /\ Truthy(self.customer_profile)
    /\ ~self.is_loading

\* the calls of the batch a suspended handler is waiting for
Batch(frame) ==
    CASE frame.pc = "load_dashboard_data" -> DashboardCalls
      [] frame.pc = "load_stats_data" -> StatsCalls
      [] frame.pc = "load_fraud_data" -> FraudCalls
      [] frame.pc = "load_customers:profiles" ->
           MapSeq(ProfileCall, frame.loc.customers)
      [] frame.pc = "load_top_customers:profiles" -> MapSeq(ProfileCall, frame.loc)
      [] OTHER -> << >>

\* C27: a handler suspended at a gather has issued every call of the batch
\* and has the result of none of them; while it waits is_loading, where the
\* load sets it, is still true and the cache registry is as at entry.  At
\* its exit every call it issued has its result, a success or a failure,
\* and nothing of the handler is left suspended.
C27_BatchIssuedThenJoined ==
    /\ \A s \in Slots :
          (ops[s] # Idle /\ Batch(ops[s]) # << >>) =>
              /\ Len(Batch(ops[s])) >= 2
              /\ ops[s].issued = SubSeq(ops[s].issued, 1, Len(ops[s].replies))
                                   \o Batch(ops[s])
              /\ self.cache_timestamps = ops[s].pre.cache_timestamps
              /\ ops[s].op # "load_top_customers" => self.is_loading
    /\ (just.op \in SectionLoads /\ just.issued # << >>) =>
              /\ Len(just.replies) = Len(just.issued)
              /\ \A i \in DOMAIN just.replies : just.replies[i].ok \in BOOLEAN
              /\ AllIdle
              /\ just.op # "load_top_customers" => ~self.is_loading

\* a dashboard load whose four calls have returned, two of them failed
C27_Witness ==
    /\ just.op = "load_dashboard_data"
    /\ Len(just.issued) = 4
    /\ Len(just.replies) = 4
    /\ Cardinality({i \in 1..4 : just.replies[i].ok}) = 2
    /\ "dashboard" \in DOMAIN self.cache_timestamps
    /\ "dashboard" \notin DOMAIN just.pre.cache_timestamps
    /\ ~self.is_loading
    /\ AllIdle

\* the fields a single-call load publishes
Published(op) ==
    CASE op \in {"load_transactions", "next_page", "prev_page"} ->
           {"transactions", "total_transactions"}
      [] op \in {"load_customers", "next_customers_page", "prev_customers_page"} ->
           {"customers", "total_customers"}
      [] op \in {"load_customer_profile", "search_customer"} -> {"customer_profile"}
      [] OTHER -> {}

\* C28: when the call of load_transactions, the list call of
\* load_customers, or the lookup of load_customer_profile or of
\* search_customer fails, the handler ends with a message in error_message,
\* is_loading false and the fields it publishes as they were at its entry.
C28_FailedCallKeepsPublished ==
    ( /\ Published(just.op) # {}
      /\ just.replies # << >>
      /\ ~just.replies[1].ok ) =>
        /\ self.error_message # ""
        /\ ~self.is_loading
        /\ Len(just.issued) = 1
        /\ \A f \in Published(just.op) : self[f] = just.pre[f]

\* a lookup that failed while a profile was shown
C28_Witness ==
    /\ just.op = "load_customer_profile"
    /\ just.replies # << >>
    /\ ~just.replies[1].ok
    /\ Truthy(just.pre.customer_profile)
    /\ self.customer_profile = just.pre.customer_profile
    /\ self.error_message = "Error loading customer profile"

\* C29: a transaction received with isFraud 1 is published with isFraud 1,
\* one received with 0 with 0: the page published by a load of the
\* transactions has, record for record, the integer flag of the response.
C29_FraudFlagPreserved ==
    ( /\ just.op \in {"load_transactions", "next_page", "prev_page"}
      /\ just.replies # << >>
      /\ just.replies[1].ok ) =>
        LET items == Get(just.replies[1].val, "transactions", << >>)
        IN  AllValidate(items, TransactionRequired) =>
              /\ Len(self.transactions) = Len(items)
              /\ \A i \in DOMAIN items :
                    /\ "isFraud" \in DOMAIN self.transactions[i]
                    /\ items[i].isFraud = 1 => self.transactions[i].isFraud = 1
                    /\ items[i].isFraud = 0 => self.transactions[i].isFraud = 0

\* a page published with a fraudulent and a legitimate transaction
C29_Witness ==
    /\ just.op = "load_transactions"
    /\ just.replies # << >>
    /\ just.replies[1].ok
    /\ Len(self.transactions) = 2
    /\ just.replies[1].val.transactions[1].isFraud = 1
    /\ self.transactions[1].isFraud = 1
    /\ just.replies[1].val.transactions[2].isFraud = 0
    /\ self.transactions[2].isFraud = 0

\* C30: after a load_dashboard_data whose metadata call succeeded,
\* system_metadata has the version "1.1.0", whatever the response carried;
\* after one whose metadata call failed, system_metadata is as it was.
C30_MetadataVersionForced ==
    (just.op = "load_dashboard_data" /\ Len(just.replies) = 4) =>
        IF just.replies[4].ok
        THEN /\ "version" \in DOMAIN self.system_metadata
             /\ self.system_metadata.version = "1.1.0"
        ELSE self.system_metadata = just.pre.system_metadata

\* the pcs of the handlers that set is_loading at their entry
LoadingPcs ==
    {"load_dashboard_data", "load_transactions", "load_customers",
     "load_customers:profiles", "load_fraud_data", "load_fraud_data:aux",
     "load_stats_data", "search_customer", "load_customer_profile",
     "predict_fraud"}

\* C31: while a handler that sets is_loading at its entry is suspended,
\* is_loading is true, also when another such handler, in flight at the
\* same time, has ended in between.
C31_LoadingWhileInFlight ==
    \A s \in Slots :
        (ops[s] # Idle /\ ops[s].pc \in LoadingPcs) => self.is_loading

\* C32: with no handler in flight, the published transactions are those
\* fetched for current_page: a next_page or prev_page that has left
\* current_page changed has fetched the list for the new page and
\* published the response.
C32_PageMatchesPublished ==
    ( /\ AllIdle
      /\ just.op \in {"next_page", "prev_page"}
      /\ self.current_page # just.pre.current_page ) =>
        /\ Len(just.issued) = 1
        /\ just.issued[1].page = self.current_page
        /\ Len(just.replies) = 1
        /\ just.replies[1].ok
        /\ self.transactions =
             MapSeq(Transaction, Get(just.replies[1].val, "transactions", << >>))

LastPage(total, per_page) ==
    IF Ceil(total, per_page) > 1 THEN Ceil(total, per_page) ELSE 1

\* C33: with no handler in flight, current_page is at most
\* max(1, ceil(total_transactions / items_per_page)) and customers_page at
\* most max(1, ceil(total_customers / items_per_page)).
C33_PageWithinTotal ==
    (AllIdle /\ self.items_per_page > 0) =>
        /\ self.current_page <=
             LastPage(self.total_transactions, self.items_per_page)
        /\ self.customers_page <=
             LastPage(self.total_customers, self.items_per_page)

\* C34: a load_fraud_data whose auxiliary fetch of transactions failed ends
\* with error_message empty, merchant_states and mcc_codes as they were,
\* the summary and the rows by type of the two first calls published, and
\* the "fraud" entry of the cache registry set to the current time.
C34_AuxFailureIgnored ==
    ( /\ just.op = "load_fraud_data"
      /\ Len(just.replies) = 3
      /\ ~just.replies[3].ok ) =>
        /\ self.error_message = ""
        /\ ~self.is_loading
        /\ self.merchant_states = just.pre.merchant_states
        /\ self.mcc_codes = just.pre.mcc_codes
        /\ self.fraud_summary = IF just.replies[1].ok THEN just.replies[1].val
                                ELSE just.pre.fraud_summary
        /\ self.fraud_by_type = IF just.replies[2].ok
                                THEN MapSeq(FraudStat, just.replies[2].val)
                                ELSE just.pre.fraud_by_type
        /\ "fraud" \in DOMAIN self.cache_timestamps
        /\ self.cache_timestamps["fraud"] = now

\* the auxiliary fetch failed after the summary and the rows had arrived,
\* the options having been extended by an earlier load
C34_Witness ==
    /\ just.op = "load_fraud_data"
    /\ Len(just.replies) = 3
    /\ just.replies[1].ok /\ just.replies[2].ok /\ ~just.replies[3].ok
    /\ Truthy(self.fraud_summary)
    /\ Truthy(self.fraud_by_type)
    /\ self.merchant_states # US_STATES
    /\ self.error_message = ""
    /\ self.cache_timestamps["fraud"] = now

NoDuplicate(seq) == Cardinality(Range(seq)) = Len(seq)

\* C35: merchant_states and mcc_codes only grow: no step removes an element
\* of either, so each holds its initial elements and those of every earlier
\* state; and neither ever holds an element twice.
C35_OptionsOnlyGrow ==
    /\ [](/\ Range(US_STATES) \subseteq Range(self.merchant_states)
          /\ Range(COMMON_MCC_CODES) \subseteq Range(self.mcc_codes)
          /\ NoDuplicate(self.merchant_states)
          /\ NoDuplicate(self.mcc_codes))
    /\ [][/\ Range(self.merchant_states) \subseteq Range(self'.merchant_states)
          /\ Range(self.mcc_codes) \subseteq Range(self'.mcc_codes)]_vars

\* the options after two loads that each found a new state and a new code
C35_Witness ==
    /\ just.op = "load_fraud_data"
    /\ Len(just.replies) = 3
    /\ Len(just.pre.merchant_states) = Len(US_STATES) + 1
    /\ Len(self.merchant_states) = Len(US_STATES) + 2
    /\ {"PR", "DC"} \subseteq Range(self.merchant_states)
    /\ Len(self.mcc_codes) = Len(COMMON_MCC_CODES) + 2
    /\ {"7011", "3000"} \subseteq Range(self.mcc_codes)

\* C36: predict_fraud empties fraud_prediction before its call: while the
\* call is in flight fraud_prediction is empty; after a call that failed it
\* is still empty, not the previous prediction, and error_message is set;
\* after a call that succeeded it is the result returned.
C36_PredictionClearedFirst ==
    /\ \A s \in Slots :
          (ops[s] # Idle /\ ops[s].pc = "predict_fraud") =>
              self.fraud_prediction = Empty
    /\ (just.op \in Predictions /\ just.replies # << >>) =>
          IF just.replies[1].ok
          THEN self.fraud_prediction = just.replies[1].val
          ELSE /\ self.fraud_prediction = Empty
               /\ self.error_message # ""

\* a prediction that failed, asked while an earlier one was shown
C36_Witness ==
    /\ just.op = "predict_fraud"
    /\ Truthy(just.pre.fraud_prediction)
    /\ just.replies # << >>
    /\ ~just.replies[1].ok
    /\ self.fraud_prediction = Empty
    /\ self.error_message = "Error predicting fraud"

\* the load `op` has just ended on the failure of its first call
FailedExit(op) ==
    /\ just.op = op
    /\ just.replies # << >>
    /\ ~just.replies[1].ok

\* C37: when the call of load_transaction_types, or the first call of
\* load_top_customers, fails, error_message is set, the published field
\* and the cache registry are as they were at entry, and the section is
\* still not served from the cache: the same load invoked next issues its
\* call again.
C37_FailedCachedLoadRetries ==
    /\ [](FailedExit("load_transaction_types") =>
            /\ self.error_message = "Error loading transaction types"
            /\ self.transaction_types = just.pre.transaction_types
            /\ self.cache_timestamps = just.pre.cache_timestamps
            /\ ~TransactionTypesCached(self, now))
    /\ [](FailedExit("load_top_customers") =>
            /\ self.error_message = "Error loading top customers"
            /\ self.top_customers = just.pre.top_customers
            /\ self.cache_timestamps = just.pre.cache_timestamps
            /\ ~TopCustomersCached(self, now))
    /\ [][\A op \in {"load_transaction_types", "load_top_customers"} :
            FailedExit(op) => ~(just'.op = op /\ just'.issued = << >>)]_vars

\* the types failed to load while an expired entry and an earlier list
\* were in place
C37_Witness ==
    /\ FailedExit("load_transaction_types")
    /\ Truthy(self.transaction_types)
    /\ "transaction_types" \in DOMAIN self.cache_timestamps
    /\ ~is_cache_valid(self, "transaction_types", now)
    /\ self.error_message = "Error loading transaction types"

ValidAmount(text) == ~Truthy(text) \/ IsFloatLiteral(text)

\* C38: load_transactions, with amount filters that are empty or numeric,
\* and load_customers, alone or behind the page navigation, issue exactly
\* one request of their list, carrying the current page and
\* items_per_page, whatever the cache registry holds, and leave the
\* registry as it was.
C38_ListLoadsBypassCache ==
    /\ ( /\ just.op \in {"load_transactions", "next_page"}
         /\ ValidAmount(just.pre.filter_min_amount)
         /\ ValidAmount(just.pre.filter_max_amount)
         /\ just.op = "next_page" => self.current_page # just.pre.current_page ) =>
           /\ Len(IssuedTo("/api/transactions")) = 1
           /\ Len(just.issued) = 1
           /\ just.issued[1].page = self.current_page
           /\ just.issued[1].limit = self.items_per_page
           /\ self.cache_timestamps = just.pre.cache_timestamps
    /\ ( /\ just.op \in {"load_customers", "next_customers_page",
                           "prev_customers_page"}
         /\ just.op # "load_customers" =>
               self.customers_page # just.pre.customers_page ) =>
           /\ Len(IssuedTo("/api/customers")) = 1
           /\ just.issued[1].ep = "/api/customers"
           /\ just.issued[1].page = self.customers_page
           /\ just.issued[1].limit = self.items_per_page
           /\ self.cache_timestamps = just.pre.cache_timestamps

\* a page of transactions fetched again although one was published and
\* the registry held a fresh entry
C38_Witness ==
    /\ just.op = "load_transactions"
    /\ Truthy(just.pre.transactions)
    /\ is_cache_valid(just.pre, "transaction_types", just.at)
    /\ Len(just.issued) = 1
    /\ just.replies[1].ok
    /\ self.cache_timestamps = just.pre.cache_timestamps

\* C39: a search_customer whose lookup succeeded with an empty profile ends
\* with the "not found" message and customer_profile as it was; one whose
\* lookup returned a non-empty profile ends with that profile published
\* and error_message empty.
C39_SearchOutcome ==
    ( /\ just.op = "search_customer"
      /\ just.replies # << >>
      /\ just.replies[1].ok ) =>
        /\ IsIntLiteral(just.pre.search_customer_id)
        /\ ~self.is_loading
        /\ IF Truthy(just.replies[1].val)
           THEN /\ self.customer_profile = just.replies[1].val
                /\ self.error_message = ""
           ELSE /\ self.customer_profile = just.pre.customer_profile
                /\ self.error_message = "Customer not found"

\* a search that found nothing while a profile was shown
C39_Witness ==
    /\ just.op = "search_customer"
    /\ just.replies # << >>
    /\ just.replies[1].ok
    /\ just.replies[1].val = Empty
    /\ Truthy(self.customer_profile)
    /\ self.error_message = "Customer not found"

\* C40: provided every remote call returns, a handler that is suspended is
\* eventually followed by a state in which it has ended and is_loading is
\* false; and while no handler is in flight is_loading stays false.
C40_LoadsEndAndClearLoading ==
    /\ \A s \in Slots :
          (ops[s] # Idle) ~> (ops[s] = Idle /\ ~self.is_loading)
    /\ [](AllIdle => ~self.is_loading)

\* a fraud load that has ended with its three calls failed
C40_Witness ==
    /\ just.op = "load_fraud_data"
    /\ Len(just.replies) = 3
    /\ \A i \in 1..3 : ~just.replies[i].ok
    /\ AllIdle
    /\ ~self.is_loading

====
